---- MODULE Spec2Model ----
(***************************************************************************)
(* The Calendar application of Mango-Apps: the calendar.json store         *)
(* (calendar_io.py), the schedules directory (schedule_io.py,              *)
(* validators.py), the merge of schedule and direct events for one date    *)
(* (event_merger.py) and the schedule statistics (schedule_stats.py).      *)
(*                                                                         *)
(* Representation of Python values:                                        *)
(*   - a dict is a function on the set of its keys, "k in d" is            *)
(*     k \in DOMAIN d, and d.copy() is d itself (values are immutable);    *)
(*   - a list is a sequence; Python indexes from 0, sequences from 1, and  *)
(*     every index a request carries or a result returns is the Python one;*)
(*   - an "HH:MM" string is the tuple of the integers between its colons   *)
(*     ("09:15" is <<9, 15>>, "8:75" is <<8, 75>>, "10" is <<10>>), so     *)
(*     that parsing and formatting are real conversions;                   *)
(*   - a "YYYY-MM-DD" string is the tuple <<y, m, d>> and a parsed         *)
(*     datetime is its proleptic Gregorian ordinal;                        *)
(*   - a file name is <<stem, suffix>> with suffix ".json" or "";          *)
(*   - a raised exception is a result record with ok = FALSE.              *)
(***************************************************************************)
EXTENDS Integers, Sequences, FiniteSets, TLC

VARIABLES
    calendar,   \* the content of data/Calendar/calendar.json
    schedules,  \* data/Calendar/schedules: file name -> stored JSON
    result,     \* what the last call returned or raised
    _schedule_name_cache  \* app.py: file name as asked -> display name

vars == <<calendar, schedules, result, _schedule_name_cache>>

(***************************************************************************)
(* Python built-ins                                                        *)
(***************************************************************************)
DictSet(d, k, v) == (k :> v) @@ d

DictGet(d, k, default) == IF k \in DOMAIN d THEN d[k] ELSE default

Min(a, b) == IF a < b THEN a ELSE b

Max(a, b) == IF a > b THEN a ELSE b

Return(value) == [ok |-> TRUE, value |-> value]

Raise(error, msg) == [ok |-> FALSE, error |-> error, msg |-> msg]

\* no call was made yet
NoResult == [ok |-> TRUE]

(***************************************************************************)
(* date_utils.py                                                           *)
(***************************************************************************)
IsLeap(y) == (y % 4 = 0 /\ y % 100 # 0) \/ y % 400 = 0

DaysInMonth(y, m) ==
    IF m = 2 THEN (IF IsLeap(y) THEN 29 ELSE 28)
    ELSE IF m \in {4, 6, 9, 11} THEN 30 ELSE 31

RECURSIVE DaysBeforeMonth(_, _)
DaysBeforeMonth(y, m) ==
    IF m = 1 THEN 0 ELSE DaysBeforeMonth(y, m - 1) + DaysInMonth(y, m - 1)

\* datetime.strptime(date_string, "%Y-%m-%d") does not raise ValueError
strptime_ok(date_string) ==
    /\ Len(date_string) = 3
    /\ date_string[1] \in 1..9999
    /\ date_string[2] \in 1..12
    /\ date_string[3] \in 1..DaysInMonth(date_string[1], date_string[2])

\* the datetime that strptime returns, as its ordinal (datetimes at midnight
\* compare as their ordinals do)
parse_date(date_string) ==
    LET y == date_string[1] - 1
    IN  y * 365 + (y \div 4) - (y \div 100) + (y \div 400)
          + DaysBeforeMonth(date_string[1], date_string[2]) + date_string[3]

\* a slip: the weekday counted from Sunday = 0
get_day_of_week_from_sunday(date) == parse_date(date) % 7

get_day_of_week(date) == (parse_date(date) + 6) % 7

date_in_range(date, start_date, end_date) ==
    LET dt == parse_date(date)
        start == parse_date(start_date)
        end == parse_date(end_date)
    IN  start <= dt /\ dt <= end

parse_time(time_string) ==
    LET parts == time_string
        hours == parts[1]
        minutes == IF Len(parts) > 1 THEN parts[2] ELSE 0
    IN  hours * 60 + minutes

\* a slip: the minutes not reduced modulo 60
format_time_no_carry(minutes) == <<minutes \div 60, minutes>>

format_time(minutes) ==
    LET hours == minutes \div 60
        mins == minutes % 60
    IN  <<hours, mins>>

\* a slip: ranges that touch at an endpoint count as overlapping
time_overlaps_closed(start1, end1, start2, end2) ==
    parse_time(start1) <= parse_time(end2) /\ parse_time(start2) <= parse_time(end1)

time_overlaps(start1, end1, start2, end2) ==
    LET s1 == parse_time(start1)
        e1 == parse_time(end1)
        s2 == parse_time(start2)
        e2 == parse_time(end2)
    IN  s1 < e2 /\ s2 < e1

(***************************************************************************)
(* calendar_io.py: the calendar.json store                                 *)
(***************************************************************************)
_get_default_calendar == [entries |-> <<>>, direct_events |-> <<>>]

\* the file is created with the default content by the first load, so the
\* store always reads as its content
load_calendar == calendar

\* os.path.exists(os.path.join(SCHEDULES_DIR, schedule_filename))
schedule_exists(schedule_filename) == schedule_filename \in DOMAIN schedules

\* a slip: the dates of the message in the wrong order
OverlapMsg_swapped(entry_start, entry_end) ==
    <<"Date range overlaps with existing entry", entry_end, entry_start>>

OverlapMsg(entry_start, entry_end) ==
    <<"Date range overlaps with existing entry", entry_start, entry_end>>

\* a slip in the overlap test: ranges that share only an end date pass
check_overlapping_entries_strict(entries, i, start, end, exclude_index) ==
    LET hits == {j \in i..(Len(entries) - 1) :
                    /\ j \notin exclude_index
                    /\ start < parse_date(entries[j + 1].end_date)
                    /\ parse_date(entries[j + 1].start_date) < end}
    IN  IF hits = {} THEN <<>>
        ELSE LET j == CHOOSE k \in hits : \A l \in hits : k <= l
             IN  OverlapMsg(entries[j + 1].start_date, entries[j + 1].end_date)

\* the loop of validate_calendar_entry over config['entries'] from Python
\* index i on: the message for the first entry that overlaps, <<>> if none
RECURSIVE check_overlapping_entries(_, _, _, _, _)
check_overlapping_entries(entries, i, start, end, exclude_index) ==
    IF i >= Len(entries) THEN <<>>
    ELSE LET entry == entries[i + 1]
             entry_start == entry.start_date
             entry_end == entry.end_date
             e_start == parse_date(entry_start)
             e_end == parse_date(entry_end)
         IN  IF i \in exclude_index
             THEN check_overlapping_entries(entries, i + 1, start, end, exclude_index)
             ELSE IF start <= e_end /\ e_start <= end
             THEN OverlapMsg(entry_start, entry_end)
             ELSE check_overlapping_entries(entries, i + 1, start, end, exclude_index)

\* exclude_index: Optional[int] is the set of the indexes to skip ({} is None)
validate_calendar_entry(start_date, end_date, schedule_filename, exclude_index) ==
    IF ~(strptime_ok(start_date) /\ strptime_ok(end_date))
    THEN [valid |-> FALSE, msg |-> <<"Invalid date format. Use YYYY-MM-DD.">>]
    ELSE LET start == parse_date(start_date)
             end == parse_date(end_date)
             config == load_calendar
             overlap == check_overlapping_entries(config.entries, 0, start, end,
                                                  exclude_index)
         IN  IF start > end
             THEN [valid |-> FALSE,
                   msg |-> <<"Start date must be before or equal to end date.">>]
             ELSE IF ~schedule_exists(schedule_filename)
             THEN [valid |-> FALSE,
                   msg |-> <<"Schedule file not found.", schedule_filename>>]
             ELSE IF overlap # <<>>
             THEN [valid |-> FALSE, msg |-> overlap]
             ELSE [valid |-> TRUE, msg |-> <<>>]

add_calendar_entry(start_date, end_date, schedule_filename) ==
    LET v == validate_calendar_entry(start_date, end_date, schedule_filename, {})
        config == load_calendar
        entry == [start_date |-> start_date, end_date |-> end_date,
                  schedule_filename |-> schedule_filename]
        saved == [config EXCEPT !.entries = Append(@, entry)]
    IN  IF ~v.valid
        THEN /\ result' = Raise("ValueError", v.msg)
             /\ UNCHANGED <<calendar, schedules>>
        ELSE /\ calendar' = saved
             /\ result' = Return(Len(saved.entries) - 1)
             /\ UNCHANGED schedules

update_calendar_entry(index, start_date, end_date, schedule_filename) ==
    LET config == load_calendar
        v == validate_calendar_entry(start_date, end_date, schedule_filename,
                                     {index})
        entry == [start_date |-> start_date, end_date |-> end_date,
                  schedule_filename |-> schedule_filename]
    IN  IF index < 0 \/ index >= Len(config.entries)
        THEN /\ result' = Raise("IndexError", <<"Entry index out of range.", index>>)
             /\ UNCHANGED <<calendar, schedules>>
        ELSE IF ~v.valid
        THEN /\ result' = Raise("ValueError", v.msg)
             /\ UNCHANGED <<calendar, schedules>>
        ELSE /\ calendar' = [config EXCEPT !.entries[index + 1] = entry]
             /\ result' = Return(<<>>)
             /\ UNCHANGED schedules

\* list.pop(index) for 0 <= index < len(list)
Pop(list, index) ==
    [k \in 1..(Len(list) - 1) |-> IF k <= index THEN list[k] ELSE list[k + 1]]

delete_calendar_entry(index) ==
    LET config == load_calendar
    IN  IF index < 0 \/ index >= Len(config.entries)
        THEN /\ result' = Raise("IndexError", <<"Entry index out of range.", index>>)
             /\ UNCHANGED <<calendar, schedules>>
        ELSE /\ calendar' = [config EXCEPT !.entries = Pop(@, index)]
             /\ result' = Return(<<>>)
             /\ UNCHANGED schedules

(***************************************************************************)
(* validators.py                                                           *)
(* A JSON day value is tagged with its Python type: [int |-> n] is an int  *)
(* and [list |-> <<..>>] a list of ints.                                   *)
(***************************************************************************)
Valid == [valid |-> TRUE, msg |-> <<>>]

Invalid(msg) == [valid |-> FALSE, msg |-> msg]

IsInt(value) == "int" \in DOMAIN value

IsList(value) == "list" \in DOMAIN value

validate_day_field(day_value) ==
    IF IsInt(day_value)
    THEN IF ~(0 <= day_value.int /\ day_value.int <= 6)
         THEN Invalid(<<"Day must be an integer between 0 (Mon) and 6 (Sun)">>)
         ELSE Valid
    ELSE IF IsList(day_value)
    THEN IF day_value.list = <<>>
         THEN Invalid(<<"Day list cannot be empty">>)
         ELSE IF \E k \in DOMAIN day_value.list :
                     ~(0 <= day_value.list[k] /\ day_value.list[k] <= 6)
         THEN Invalid(<<"Each day in the list must be an integer between 0 (Mon) and 6 (Sun)">>)
         ELSE Valid
    ELSE Invalid(<<"Day must be an integer or a list of integers between 0 (Mon) and 6 (Sun)">>)

\* re.compile(r"^([01]\d|2[0-3]):([0-5]\d)$").match(time_string)
time_pattern_match(time_string) ==
    /\ Len(time_string) = 2
    /\ time_string[1] \in 0..23
    /\ time_string[2] \in 0..59

validate_time_fields(start, end) ==
    IF ~time_pattern_match(start)
    THEN Invalid(<<"Invalid start time format", start>>)
    ELSE IF ~time_pattern_match(end)
    THEN Invalid(<<"Invalid end time format", end>>)
    ELSE Valid

\* the first of the fields that is no key of the dict, "" if all are
FirstMissing(d, fields) ==
    LET missing == {k \in DOMAIN fields : fields[k] \notin DOMAIN d}
    IN  IF missing = {} THEN ""
        ELSE fields[CHOOSE k \in missing : \A l \in missing : k <= l]

validate_timestamp(ts) ==
    LET required_fields == <<"day", "start", "end">>
    IN  IF FirstMissing(ts, required_fields) # ""
        THEN Invalid(<<"Missing field", FirstMissing(ts, required_fields)>>)
        ELSE IF ~validate_day_field(ts.day).valid
        THEN validate_day_field(ts.day)
        ELSE validate_time_fields(ts.start, ts.end)

validate_legacy_event(event) ==
    LET required_fields == <<"day", "start", "end", "title", "type">>
    IN  IF FirstMissing(event, required_fields) # ""
        THEN Invalid(<<"Missing field", FirstMissing(event, required_fields)>>)
        ELSE IF ~validate_day_field(event.day).valid
        THEN validate_day_field(event.day)
        ELSE validate_time_fields(event.start, event.end)

validate_event(event) ==
    IF "overwriteable" \in DOMAIN event /\ event.overwriteable \notin BOOLEAN
    THEN Invalid(<<"'overwriteable' must be a boolean">>)
    ELSE IF "timestamps" \in DOMAIN event
    THEN IF FirstMissing(event, <<"title", "type">>) # ""
         THEN Invalid(<<"Missing field", FirstMissing(event, <<"title", "type">>)>>)
         ELSE LET bad == {i \in DOMAIN event.timestamps :
                             ~validate_timestamp(event.timestamps[i]).valid}
                  i == CHOOSE k \in bad : \A l \in bad : k <= l
              IN  IF bad = {} THEN Valid
                  ELSE Invalid(<<"Timestamp", i - 1>>
                                 \o validate_timestamp(event.timestamps[i]).msg)
    ELSE validate_legacy_event(event)

\* PREDEFINED_COLORS, by name
PREDEFINED_COLORS ==
    <<"yellow-orange", "yellow", "orange", "red", "blue", "purple", "teal",
      "light-purple", "light-blue", "green", "black", "muted-gray", "brown",
      "light-pink", "kiwi", "rose">>

VALID_COLOR_NAMES == {PREDEFINED_COLORS[i] : i \in DOMAIN PREDEFINED_COLORS}

validate_color_mappings(color_mappings) ==
    LET bad == {type_name \in DOMAIN color_mappings :
                   color_mappings[type_name] \notin VALID_COLOR_NAMES}
    IN  IF bad = {} THEN Valid
        ELSE Invalid(<<"Invalid color", bad>>)

validate_schedule_structure(data) ==
    IF FirstMissing(data, <<"name", "events">>) # ""
    THEN Invalid(<<"Missing required key", FirstMissing(data, <<"name", "events">>)>>)
    ELSE IF "color_mappings" \in DOMAIN data
              /\ ~validate_color_mappings(data.color_mappings).valid
    THEN validate_color_mappings(data.color_mappings)
    ELSE LET bad == {i \in DOMAIN data.events : ~validate_event(data.events[i]).valid}
             i == CHOOSE k \in bad : \A l \in bad : k <= l
         IN  IF bad = {} THEN Valid
             ELSE Invalid(<<"Event", i - 1>> \o validate_event(data.events[i]).msg)

\* file names carry no unsafe character: what is left is the suffix
sanitize_filename(filename) ==
    IF filename[2] # ".json" THEN <<filename[1], ".json">> ELSE filename

(***************************************************************************)
(* schedule_io.py                                                          *)
(***************************************************************************)
DictDel(d, k) == [x \in DOMAIN d \ {k} |-> d[x]]

\* list.extend over the lists of a list
RECURSIVE Flatten(_)
Flatten(lists) ==
    IF Len(lists) = 0 THEN <<>>
    ELSE Head(lists) \o Flatten(Tail(lists))

\* the instances of one timestamp entry (the loop body of lines 32-46)
expand_timestamp(base_event, ts, original_idx) ==
    LET days == ts.day
        start == ts.start
        end == ts.end
        day_list == IF IsList(days) THEN days.list ELSE <<days.int>>
    IN  [k \in DOMAIN day_list |->
            DictSet(DictSet(DictSet(DictSet(base_event, "day", day_list[k]),
                                    "start", start), "end", end),
                    "_original_idx", original_idx)]

\* a slip: the instances of a template with timestamps copy the template
\* whole, its timestamps included
expand_event_keep_timestamps(event, original_idx) ==
    IF "timestamps" \in DOMAIN event
    THEN Flatten([t \in DOMAIN event.timestamps |->
                     expand_timestamp(event, event.timestamps[t], original_idx)])
    ELSE IF IsList(event.day)
    THEN [k \in DOMAIN event.day.list |->
             DictSet(DictSet(event, "day", event.day.list[k]),
                     "_original_idx", original_idx)]
    ELSE <<DictSet(DictSet(event, "day", event.day.int),
                   "_original_idx", original_idx)>>

\* the instances of one template (the loop body of lines 26-63); the day of
\* an instance is the bare integer
expand_event(event, original_idx) ==
    IF "timestamps" \in DOMAIN event
    THEN LET base_event == DictDel(event, "timestamps")
         IN  Flatten([t \in DOMAIN event.timestamps |->
                         expand_timestamp(base_event, event.timestamps[t],
                                          original_idx)])
    ELSE IF "day" \in DOMAIN event
    THEN LET day_value == event.day
         IN  IF IsList(day_value)
             THEN [k \in DOMAIN day_value.list |->
                      DictSet(DictSet(event, "day", day_value.list[k]),
                              "_original_idx", original_idx)]
             ELSE <<DictSet(DictSet(event, "day", day_value.int),
                            "_original_idx", original_idx)>>
    ELSE <<>>

\* a slip: _original_idx counted from 1
expand_events_from_one(events) ==
    Flatten([i \in DOMAIN events |-> expand_event(events[i], i)])

expand_events(events) ==
    Flatten([i \in DOMAIN events |-> expand_event(events[i], i - 1)])

\* the event types the model uses, in the order sorted() gives them
SortedTypeNames ==
    <<"art", "break", "chores", "class", "commute", "errand", "exercise", "food",
      "gym", "lab", "meeting", "music", "nap", "other", "reading", "study",
      "travel", "work">>

\* a slip: the palette is assigned in reverse alphabetical order of the types
_generate_default_color_mappings_reversed(events) ==
    LET unique_types == {DictGet(events[i], "type", "other") : i \in DOMAIN events}
        sorted_types == SelectSeq(SortedTypeNames, LAMBDA t : t \in unique_types)
        idx(event_type) == CHOOSE k \in DOMAIN sorted_types :
                              sorted_types[k] = event_type
    IN  [event_type \in unique_types |->
            PREDEFINED_COLORS[((Len(sorted_types) - idx(event_type))
                                  % Len(PREDEFINED_COLORS)) + 1]]

_generate_default_color_mappings(events) ==
    LET unique_types == {DictGet(events[i], "type", "other") : i \in DOMAIN events}
        sorted_types == SelectSeq(SortedTypeNames, LAMBDA t : t \in unique_types)
        idx(event_type) == CHOOSE k \in DOMAIN sorted_types :
                              sorted_types[k] = event_type
    IN  [event_type \in unique_types |->
            PREDEFINED_COLORS[((idx(event_type) - 1) % Len(PREDEFINED_COLORS)) + 1]]

\* load_schedule up to the validation: the data read, with the migrated
\* color_mappings when the file has none
load_schedule_data(safe_name) ==
    LET data == schedules[safe_name]
    IN  IF "color_mappings" \notin DOMAIN data /\ "events" \in DOMAIN data
        THEN DictSet(data, "color_mappings",
                     _generate_default_color_mappings(data.events))
        ELSE data

\* what load_schedule returns or raises
load_schedule(filename) ==
    LET safe_name == sanitize_filename(filename)
        data == load_schedule_data(safe_name)
        v == validate_schedule_structure(data)
    IN  IF safe_name \notin DOMAIN schedules
        THEN Raise("FileNotFoundError", <<"Schedule not found", safe_name>>)
        ELSE IF ~v.valid
        THEN Raise("ValueError", <<"Invalid schedule data">> \o v.msg)
        ELSE IF "events" \in DOMAIN data
        THEN Return(DictSet(data, "events", expand_events(data.events)))
        ELSE Return(data)

\* the schedules directory after load_schedule: the migration is written
\* back when the data is valid
load_schedule_files(filename) ==
    LET safe_name == sanitize_filename(filename)
        data == load_schedule_data(safe_name)
    IN  IF /\ safe_name \in DOMAIN schedules
           /\ data # schedules[safe_name]
           /\ validate_schedule_structure(data).valid
        THEN [schedules EXCEPT ![safe_name] = data]
        ELSE schedules

(***************************************************************************)
(* calendar_io.py: reads, and the direct events                            *)
(***************************************************************************)
\* None, for a file name
NoSchedule == <<>>

RECURSIVE find_schedule_for_date(_, _, _)
find_schedule_for_date(entries, i, date) ==
    IF i > Len(entries) THEN NoSchedule
    ELSE IF date_in_range(date, entries[i].start_date, entries[i].end_date)
    THEN entries[i].schedule_filename
    ELSE find_schedule_for_date(entries, i + 1, date)

get_schedule_for_date(date) ==
    LET config == load_calendar
    IN  find_schedule_for_date(config.entries, 1, date)

get_direct_events_for_date(date) ==
    LET config == load_calendar
        at_date == SelectSeq([i \in DOMAIN config.direct_events |-> i],
                             LAMBDA i : config.direct_events[i].date = date)
    IN  [k \in DOMAIN at_date |->
            DictSet(config.direct_events[at_date[k]], "_direct_index",
                    at_date[k] - 1)]

validate_direct_event(event_data) ==
    LET required_fields == <<"date", "title", "start", "end">>
    IN  IF FirstMissing(event_data, required_fields) # ""
        THEN Invalid(<<"Missing required field", FirstMissing(event_data, required_fields)>>)
        ELSE IF ~strptime_ok(event_data.date)
        THEN Invalid(<<"Invalid date format. Use YYYY-MM-DD.">>)
        ELSE IF Len(event_data.start) = 0 \/ Len(event_data.end) = 0
        THEN Invalid(<<"Invalid time format. Use HH:MM.">>)
        ELSE IF parse_time(event_data.start) >= parse_time(event_data.end)
        THEN Invalid(<<"Start time must be before end time.">>)
        ELSE Valid

\* the dict that add_direct_event and update_direct_event store
direct_event_record(event_data) ==
    LET event == [date |-> event_data.date,
                  title |-> event_data.title,
                  type |-> DictGet(event_data, "type", "other"),
                  start |-> event_data.start,
                  end |-> event_data.end]
    IN  IF "sub" \in DOMAIN event_data
        THEN DictSet(event, "sub", event_data.sub)
        ELSE event

(***************************************************************************)
(* event_merger.py                                                         *)
(***************************************************************************)
mark_event_source(events, source_type) ==
    [i \in DOMAIN events |-> DictSet(events[i], "_source", source_type)]

\* a slip: the after-part starts where the direct event starts
split_schedule_event_from_start(schedule_event, direct_event) ==
    LET sched_start == parse_time(schedule_event.start)
        sched_end == parse_time(schedule_event.end)
        direct_start == parse_time(direct_event.start)
        direct_end == parse_time(direct_event.end)
        before_end == Min(sched_end, direct_start)
        after_start == Max(sched_start, direct_start)
    IN  (IF sched_start < direct_start /\ sched_start < before_end
         THEN <<DictSet(DictSet(DictSet(schedule_event,
                    "start", format_time(sched_start)),
                    "end", format_time(before_end)), "_split", "before")>>
         ELSE <<>>)
        \o (IF sched_end > direct_end /\ after_start < sched_end
            THEN <<DictSet(DictSet(DictSet(schedule_event,
                       "start", format_time(after_start)),
                       "end", format_time(sched_end)), "_split", "after")>>
            ELSE <<>>)

split_schedule_event(schedule_event, direct_event) ==
    LET sched_start == parse_time(schedule_event.start)
        sched_end == parse_time(schedule_event.end)
        direct_start == parse_time(direct_event.start)
        direct_end == parse_time(direct_event.end)
        before_end == Min(sched_end, direct_start)
        before_segment ==
            DictSet(DictSet(DictSet(schedule_event,
                "start", format_time(sched_start)),
                "end", format_time(before_end)),
                "_split", "before")
        after_start == Max(sched_start, direct_end)
        after_segment ==
            DictSet(DictSet(DictSet(schedule_event,
                "start", format_time(after_start)),
                "end", format_time(sched_end)),
                "_split", "after")
    IN  (IF sched_start < direct_start /\ sched_start < before_end
         THEN <<before_segment>> ELSE <<>>)
        \o (IF sched_end > direct_end /\ after_start < sched_end
            THEN <<after_segment>> ELSE <<>>)

\* a slip: an unstable sort, equal starts end up reversed
InsertByStart_unstable(sorted, e) ==
    LET n == Cardinality({k \in DOMAIN sorted :
                             parse_time(sorted[k].start) < parse_time(e.start)})
    IN  SubSeq(sorted, 1, n) \o <<e>> \o SubSeq(sorted, n + 1, Len(sorted))

\* list.insert behind every element whose start is not later: the step of a
\* stable sort by parse_time(e['start'])
InsertByStart(sorted, e) ==
    LET n == Cardinality({k \in DOMAIN sorted :
                             parse_time(sorted[k].start) <= parse_time(e.start)})
    IN  SubSeq(sorted, 1, n) \o <<e>> \o SubSeq(sorted, n + 1, Len(sorted))

\* sorted(events, key=lambda e: date_utils.parse_time(e['start'])), and
\* list.sort with the same key: both are stable
RECURSIVE sorted_by_start(_)
sorted_by_start(events) ==
    IF Len(events) = 0 THEN <<>>
    ELSE InsertByStart(sorted_by_start(SubSeq(events, 1, Len(events) - 1)),
                       events[Len(events)])

\* lines 100-117: the current segments after one direct event
split_segments(current_segments, direct_event) ==
    Flatten([k \in DOMAIN current_segments |->
        LET segment == current_segments[k]
            seg_start == segment.start
            seg_end == segment.end
            dir_start == direct_event.start
            dir_end == direct_event.end
        IN  IF time_overlaps(seg_start, seg_end, dir_start, dir_end)
            THEN split_schedule_event(segment, direct_event)
            ELSE <<segment>>])

\* a slip: the loop over the direct events ends after the first of them
split_by_first(current_segments, sorted_direct, k) ==
    IF k > Len(sorted_direct) THEN current_segments
    ELSE split_segments(current_segments, sorted_direct[k])

\* lines 98-117: the loop over sorted_direct from its k-th element on
RECURSIVE split_by_all(_, _, _)
split_by_all(current_segments, sorted_direct, k) ==
    IF k > Len(sorted_direct) THEN current_segments
    ELSE split_by_all(split_segments(current_segments, sorted_direct[k]),
                      sorted_direct, k + 1)

process_overlaps(schedule_events, direct_events) ==
    IF Len(direct_events) = 0 THEN schedule_events
    ELSE LET sorted_direct == sorted_by_start(direct_events)
         IN  Flatten([i \in DOMAIN schedule_events |->
                 split_by_all(<<schedule_events[i]>>, sorted_direct, 1)])

\* a slip: the direct events go through the split as well
merge_events_split_all(schedule_events, direct_events, date) ==
    LET schedule_marked == mark_event_source(schedule_events, "schedule")
        direct_marked == mark_event_source(direct_events, "direct")
        sorted_direct == sorted_by_start(direct_marked)
        processed == Flatten([i \in DOMAIN schedule_marked |->
                         split_by_all(<<schedule_marked[i]>>, sorted_direct, 1)])
        direct_left == Flatten([i \in DOMAIN sorted_direct |->
                         split_by_all(<<sorted_direct[i]>>,
                                      SubSeq(sorted_direct, 1, i - 1), 1)])
    IN  sorted_by_start(processed \o direct_left)

merge_events(schedule_events, direct_events, date) ==
    LET schedule_marked == mark_event_source(schedule_events, "schedule")
        direct_marked == mark_event_source(direct_events, "direct")
        processed_schedule == process_overlaps(schedule_marked, direct_marked)
        all_events == processed_schedule \o direct_marked
    IN  sorted_by_start(all_events)

get_events_for_day(schedule_events, day_index) ==
    SelectSeq(schedule_events,
              LAMBDA event :
                  /\ "day" \in DOMAIN event
                  /\ (IF event.day = 7 THEN 6 ELSE event.day) = day_index)

(***************************************************************************)
(* schedule_stats.py                                                       *)
(* A float number of hours is the fraction num / den that the division by  *)
(* 60.0 forms; sums keep the denominator.                                  *)
(***************************************************************************)
Hours(minutes) == [num |-> minutes, den |-> 60]

AddHours(a, b) == [num |-> a.num + b.num, den |-> 60]

parse_time_to_minutes(time_str) ==
    LET h == time_str[1]
        m == time_str[2]
    IN  h * 60 + m

time_ranges_overlap(start1, end1, start2, end2) ==
    start1 < end2 /\ end1 > start2

\* overlaps.sort(key=lambda x: x[0]), a stable sort
RECURSIVE sort_overlaps(_)
sort_overlaps(overlaps) ==
    IF Len(overlaps) = 0 THEN <<>>
    ELSE LET front == sort_overlaps(SubSeq(overlaps, 1, Len(overlaps) - 1))
             x == overlaps[Len(overlaps)]
             n == Cardinality({k \in DOMAIN front : front[k][1] <= x[1]})
         IN  SubSeq(front, 1, n) \o <<x>> \o SubSeq(front, n + 1, Len(front))

\* lines 54-67: the sweep from the k-th overlap on
RECURSIVE visible_minutes(_, _, _, _, _)
visible_minutes(overlaps, k, current_pos, total_minutes, evt_end) ==
    IF k > Len(overlaps)
    THEN IF current_pos < evt_end
         THEN total_minutes + (evt_end - current_pos)
         ELSE total_minutes
    ELSE LET overlap_start == overlaps[k][1]
             overlap_end == overlaps[k][2]
             segment_end == Min(overlap_start, evt_end)
         IN  visible_minutes(overlaps, k + 1, Max(current_pos, overlap_end),
                             IF current_pos < overlap_start
                             THEN total_minutes + (segment_end - current_pos)
                             ELSE total_minutes,
                             evt_end)

\* "other is event" skips an event that the overwriteable test skips as well
calculate_effective_duration(event, all_events) ==
    LET evt_start == parse_time_to_minutes(event.start)
        evt_end == parse_time_to_minutes(event.end)
        evt_day == DictGet(event, "day", 0)
        occluders ==
            SelectSeq(all_events,
                      LAMBDA other :
                          /\ ~DictGet(other, "overwriteable", FALSE)
                          /\ DictGet(other, "day", 0) = evt_day
                          /\ time_ranges_overlap(evt_start, evt_end,
                                                 parse_time_to_minutes(other.start),
                                                 parse_time_to_minutes(other.end)))
        overlaps == [k \in DOMAIN occluders |->
                        <<parse_time_to_minutes(occluders[k].start),
                          parse_time_to_minutes(occluders[k].end)>>]
    IN  IF ~DictGet(event, "overwriteable", FALSE)
        THEN Hours(evt_end - evt_start)
        ELSE IF Len(overlaps) = 0
        THEN Hours(evt_end - evt_start)
        ELSE Hours(visible_minutes(sort_overlaps(overlaps), 1, evt_start, 0, evt_end))

RECURSIVE SumHours(_)
SumHours(hours) ==
    IF Len(hours) = 0 THEN Hours(0)
    ELSE AddHours(SumHours(SubSeq(hours, 1, Len(hours) - 1)), hours[Len(hours)])

calculate_stats(events) ==
    LET standard_types == {"class", "work", "exercise", "food", "commute", "other"}
        etype(event) == DictGet(event, "type", "other")
        hours == [i \in DOMAIN events |->
                     calculate_effective_duration(events[i], events)]
        of_type(t) == SelectSeq([i \in DOMAIN events |-> i],
                                LAMBDA i : etype(events[i]) = t)
    IN  [by_category |->
            [t \in standard_types \cup {etype(events[i]) : i \in DOMAIN events} |->
                SumHours([k \in DOMAIN of_type(t) |-> hours[of_type(t)[k]]])],
         total |-> SumHours(hours)]

get_category_breakdown(events, category) ==
    LET category_events ==
            SelectSeq(events, LAMBDA e : DictGet(e, "type", "") = category)
    IN  [k \in DOMAIN category_events |->
            [title |-> DictGet(category_events[k], "title", ""),
             sub |-> DictGet(category_events[k], "sub", ""),
             day |-> DictGet(category_events[k], "day", <<>>),
             hours |-> calculate_effective_duration(category_events[k], events)]]

(***************************************************************************)
(* app.py: GET /api/schedules/<filename>                                   *)
(* The colors of the response are a lookup by type and are left out.       *)
(***************************************************************************)
get_schedule(filename) ==
    LET loaded == load_schedule(filename)
        data == loaded.value
        events == DictGet(data, "events", <<>>)
        unique_types == {DictGet(events[i], "type", "other") : i \in DOMAIN events}
    IN  IF ~loaded.ok
        THEN /\ result' = loaded
             /\ UNCHANGED <<calendar, schedules>>
        ELSE /\ result' = Return([schedule |-> data,
                                  stats |-> calculate_stats(events),
                                  breakdowns |->
                                      [t \in unique_types |->
                                          get_category_breakdown(events, t)]])
             /\ schedules' = load_schedule_files(filename)
             /\ UNCHANGED calendar


(***************************************************************************)
(* app.py: GET /api/calendar/date/<date>                                   *)
(* The colors of the response are a lookup by type and are left out.       *)
(***************************************************************************)
get_calendar_date(date) ==
    LET schedule_filename == get_schedule_for_date(date)
        loaded == load_schedule(schedule_filename)
        all_events == DictGet(loaded.value, "events", <<>>)
        day_index == get_day_of_week(date)
        schedule_events ==
            IF schedule_filename # NoSchedule
            THEN get_events_for_day(all_events, day_index)
            ELSE <<>>
        direct_events == get_direct_events_for_date(date)
        merged_events == merge_events(schedule_events, direct_events, date)
    IN  IF Len(calendar.entries) > 0 /\ ~strptime_ok(date)
        THEN /\ result' = Raise("ValueError", <<"time data does not match format">>)
             /\ UNCHANGED <<calendar, schedules>>
        ELSE IF schedule_filename # NoSchedule /\ ~loaded.ok
        THEN /\ result' = loaded
             /\ UNCHANGED <<calendar, schedules>>
        ELSE /\ result' = Return([date |-> date,
                                  schedule_filename |-> schedule_filename,
                                  events |-> merged_events])
             /\ schedules' = IF schedule_filename # NoSchedule
                             THEN load_schedule_files(schedule_filename)
                             ELSE schedules
             /\ UNCHANGED calendar


(***************************************************************************)
(* Calendar entries: any sequence of add / update / delete calls on an     *)
(* empty calendar with the schedules a.json and b.json on disk             *)
(***************************************************************************)
MaxEntries == 3

\* the dates of the requests; 2025-02-30 is the string strptime rejects
EntryDates ==
    {<<2025, 1, 10>>, <<2025, 1, 15>>, <<2025, 1, 20>>, <<2025, 1, 25>>,
     <<2025, 2, 30>>}

\* the names of the requests; the file "a" (no suffix) is not on disk
EntryFiles == {<<"a", ".json">>, <<"b", ".json">>, <<"a", "">>}

EmptySchedule(name) == [name |-> name, events |-> <<>>]

InitEntries ==
    /\ calendar = _get_default_calendar
    /\ schedules = (<<"a", ".json">> :> EmptySchedule("A"))
                     @@ (<<"b", ".json">> :> EmptySchedule("B"))
    /\ result = NoResult
    /\ _schedule_name_cache = <<>>

AddEntry ==
    /\ Len(calendar.entries) < MaxEntries
    /\ \E s \in EntryDates, e \in EntryDates, f \in EntryFiles :
          add_calendar_entry(s, e, f)
    /\ UNCHANGED _schedule_name_cache

UpdateEntry ==
    /\ \E i \in -1..MaxEntries, s \in EntryDates, e \in EntryDates, f \in EntryFiles :
           update_calendar_entry(i, s, e, f)
    /\ UNCHANGED _schedule_name_cache

DeleteEntry ==
    /\ \E i \in -1..MaxEntries : delete_calendar_entry(i)
    /\ UNCHANGED _schedule_name_cache

NextEntries == AddEntry \/ UpdateEntry \/ DeleteEntry

SpecEntries == InitEntries /\ [][NextEntries]_vars

\* the dates of the inclusive range of a stored entry
EntryDays(entry) == parse_date(entry.start_date)..parse_date(entry.end_date)

\* C1: after any sequence of add_calendar_entry, update_calendar_entry and
\* delete_calendar_entry calls on an empty calendar, every stored entry has
\* start_date <= end_date and no two stored entries share a date.
C1_EntriesOrderedAndDisjoint ==
    /\ \A i \in DOMAIN calendar.entries :
          /\ strptime_ok(calendar.entries[i].start_date)
          /\ strptime_ok(calendar.entries[i].end_date)
          /\ parse_date(calendar.entries[i].start_date)
               <= parse_date(calendar.entries[i].end_date)
    /\ \A i, j \in DOMAIN calendar.entries :
          i # j => EntryDays(calendar.entries[i]) \cap EntryDays(calendar.entries[j]) = {}

\* three entries are stored, one of them a range of several dates that an
\* update moved next to its neighbours, and the last call was a rejected overlap
C1_Witness ==
    /\ Len(calendar.entries) = 3
    /\ \E i \in DOMAIN calendar.entries :
          calendar.entries[i].start_date # calendar.entries[i].end_date
    /\ ~result.ok
    /\ result.msg[1] = "Date range overlaps with existing entry"

(***************************************************************************)
(* The merge for one date: the schedule a.json is mapped to the week of    *)
(* Wednesday 2025-01-15; its templates are any that validate_event         *)
(* accepts, the stored direct events any that validate_direct_event        *)
(* accepts.                                                                *)
(***************************************************************************)
MaxSched == 2

MaxDirect == 2

SeqsUpTo(S, n) == UNION {[1..k -> S] : k \in 0..n}

Wednesday == <<2025, 1, 15>>

Thursday == <<2025, 1, 16>>

WeekFile == <<"a", ".json">>

\* "24:00" is a time the pattern rejects
SchedTimes == {<<9, 0>>, <<9, 15>>, <<9, 45>>, <<10, 30>>, <<24, 0>>}

\* "8:75" is an unpadded way to write 09:15 that int() accepts
DirectTimes == {<<9, 0>>, <<9, 15>>, <<8, 75>>, <<9, 45>>, <<10, 30>>}

LegacyTemplate(day, start, end) ==
    [day |-> [int |-> day], start |-> start, end |-> end, title |-> "Standup",
     type |-> "work", overwriteable |-> TRUE]

MergeTemplates ==
    {t \in {LegacyTemplate(2, s, e) : s \in SchedTimes, e \in SchedTimes}
             \cup {LegacyTemplate(3, <<9, 0>>, <<10, 30>>),
                   LegacyTemplate(8, <<9, 0>>, <<10, 30>>)} :
        validate_event(t).valid}

DirectData(date, start, end) ==
    [date |-> date, title |-> "Call", start |-> start, end |-> end]

MergeDirects ==
    {direct_event_record(d) :
        d \in {x \in {DirectData(Wednesday, s, e) : s \in DirectTimes, e \in DirectTimes}
                      \cup {DirectData(Thursday, <<9, 0>>, <<10, 30>>)} :
                  validate_direct_event(x).valid}}

InitMerge ==
    /\ \E events \in SeqsUpTo(MergeTemplates, MaxSched) :
          schedules = (WeekFile :> [name |-> "Week", events |-> events])
    /\ \E direct_events \in SeqsUpTo(MergeDirects, MaxDirect) :
          calendar = [entries |-> <<[start_date |-> <<2025, 1, 13>>,
                                     end_date |-> <<2025, 1, 19>>,
                                     schedule_filename |-> WeekFile]>>,
                      direct_events |-> direct_events]
    /\ result = NoResult
    /\ _schedule_name_cache = <<>>

GetCalendarDate ==
    /\ get_calendar_date(Wednesday)
    /\ UNCHANGED _schedule_name_cache

NextMerge == GetCalendarDate

SpecMerge == InitMerge /\ [][NextMerge]_vars

\* the request was answered: result.value.events is the merged list
Merged == "value" \in DOMAIN result

MergedEvents == result.value.events

\* what the route handed to merge_events
MergeSchedule ==
    get_events_for_day(expand_events(schedules[WeekFile].events),
                       get_day_of_week(result.value.date))

MergeDirect == get_direct_events_for_date(result.value.date)

\* the minutes of the half-open span of an event
Minutes(e) == parse_time(e.start)..(parse_time(e.end) - 1)

\* the output events that come from the schedule event S
SegmentsOf(S) ==
    SelectSeq(MergedEvents,
              LAMBDA e : e._source = "schedule" /\ e._original_idx = S._original_idx)

\* C2: the segments merge_events outputs for a schedule event S cover exactly
\* the minutes of [S.start, S.end) that no direct event of the date covers:
\* none outside S, none under a direct event, none twice, none lost.
C2_SegmentsCoverUncovered ==
    Merged =>
        \A i \in DOMAIN MergeSchedule :
            LET S == MergeSchedule[i]
                segs == SegmentsOf(S)
                taken == UNION {Minutes(MergeDirect[k]) : k \in DOMAIN MergeDirect}
            IN  /\ UNION {Minutes(segs[k]) : k \in DOMAIN segs} = Minutes(S) \ taken
                /\ \A k, l \in DOMAIN segs :
                      k # l => Minutes(segs[k]) \cap Minutes(segs[l]) = {}

\* a schedule event cut by two direct events given latest first, one of which
\* takes its beginning: what is left is the piece between them
C2_Witness ==
    /\ Merged
    /\ Len(MergeDirect) = 2
    /\ parse_time(MergeDirect[1].start) > parse_time(MergeDirect[2].start)
    /\ \E i \in DOMAIN MergeSchedule :
          /\ Len(SegmentsOf(MergeSchedule[i])) = 1
          /\ Minutes(SegmentsOf(MergeSchedule[i])[1]) = 555..584
          /\ Minutes(MergeSchedule[i]) = 540..629

Start(e) == parse_time(e.start)

End(e) == parse_time(e.end)

\* half-open overlap of the spans of two events
SpansOverlap(a, b) == Start(a) < End(b) /\ Start(b) < End(a)

\* C3: in the output of merge_events no schedule event overlaps a direct
\* event, and the segments of one schedule event are pairwise disjoint and in
\* time order, a before-part never behind an after-part.
C3_NoOverlapAndOrder ==
    Merged =>
        /\ \A i, j \in DOMAIN MergedEvents :
              (MergedEvents[i]._source = "schedule" /\ MergedEvents[j]._source = "direct")
                  => ~SpansOverlap(MergedEvents[i], MergedEvents[j])
        /\ \A i \in DOMAIN MergeSchedule :
              LET segs == SegmentsOf(MergeSchedule[i])
              IN  \A k, l \in DOMAIN segs :
                      k < l =>
                          /\ ~SpansOverlap(segs[k], segs[l])
                          /\ End(segs[k]) <= Start(segs[l])
                          /\ ~(/\ DictGet(segs[k], "_split", "") = "after"
                               /\ DictGet(segs[l], "_split", "") = "before")

\* a schedule event is cut in two by a direct event inside it while a second
\* direct event overlaps the first
C3_Witness ==
    /\ Merged
    /\ Len(MergeDirect) = 2
    /\ SpansOverlap(MergeDirect[1], MergeDirect[2])
    /\ \E i \in DOMAIN MergeSchedule :
          LET segs == SegmentsOf(MergeSchedule[i])
          IN  /\ Len(segs) = 2
              /\ segs[1]._split = "before"
              /\ segs[2]._split = "after"

\* the pairs (schedule event, direct event) of the merged date
MergePairs == (DOMAIN MergeSchedule) \X (DOMAIN MergeDirect)

StrictlyInside(D, S) == Start(S) < Start(D) /\ Start(D) < End(D) /\ End(D) < End(S)

\* C4: for schedStart < directStart < directEnd < schedEnd,
\* split_schedule_event returns exactly the two segments
\* [schedStart, directStart] and [directEnd, schedEnd], and their lengths and
\* the direct event's add up to schedEnd - schedStart.
C4_SplitInTwo ==
    Merged =>
        \A p \in MergePairs :
            LET S == MergeSchedule[p[1]]
                D == MergeDirect[p[2]]
                segs == split_schedule_event(S, D)
            IN  StrictlyInside(D, S) =>
                    /\ Len(segs) = 2
                    /\ Start(segs[1]) = Start(S) /\ End(segs[1]) = Start(D)
                    /\ Start(segs[2]) = End(D) /\ End(segs[2]) = End(S)
                    /\ (End(segs[1]) - Start(segs[1])) + (End(segs[2]) - Start(segs[2]))
                         + (End(D) - Start(D)) = End(S) - Start(S)

\* 09:00-10:30 is split around a direct event stored as "8:75"-"09:45"
C4_Witness ==
    /\ Merged
    /\ \E p \in MergePairs :
          /\ StrictlyInside(MergeDirect[p[2]], MergeSchedule[p[1]])
          /\ MergeDirect[p[2]].start = <<8, 75>>
          /\ Len(SegmentsOf(MergeSchedule[p[1]])) = 2

\* the stored templates of the schedule and the stored direct events
Templates == schedules[WeekFile].events

StoredDirect == calendar.direct_events

\* C5: merged for a Wednesday (weekday 2), a single schedule event with day 2
\* and a single direct event strictly inside its span give exactly 3 events
\* in start order: the part before (schedule, before), the direct event, the
\* part after (schedule, after).
C5_ThreeEvents ==
    (Merged /\ result.value.date = Wednesday) =>
        \A i \in DOMAIN Templates : \A j \in DOMAIN StoredDirect :
            LET S == Templates[i]
                D == StoredDirect[j]
            IN  (/\ S.day.int = 2
                 /\ \A k \in DOMAIN Templates : k # i => Templates[k].day.int # 2
                 /\ D.date = Wednesday
                 /\ \A k \in DOMAIN StoredDirect : k # j => StoredDirect[k].date # Wednesday
                 /\ StrictlyInside(D, S))
                =>  /\ Len(MergedEvents) = 3
                    /\ MergedEvents[1]._source = "schedule"
                    /\ MergedEvents[1]._split = "before"
                    /\ Start(MergedEvents[1]) = Start(S)
                    /\ End(MergedEvents[1]) = Start(D)
                    /\ MergedEvents[2]._source = "direct"
                    /\ "_split" \notin DOMAIN MergedEvents[2]
                    /\ MergedEvents[2].start = D.start
                    /\ MergedEvents[2].end = D.end
                    /\ MergedEvents[3]._source = "schedule"
                    /\ MergedEvents[3]._split = "after"
                    /\ Start(MergedEvents[3]) = End(D)
                    /\ End(MergedEvents[3]) = End(S)

\* the scenario of the specification, next to a Thursday template and a
\* Thursday direct event that the date leaves out
C5_Witness ==
    /\ Merged
    /\ Len(Templates) = 2 /\ Len(StoredDirect) = 2
    /\ \E i \in DOMAIN Templates :
          /\ Templates[i].day.int = 2
          /\ Templates[i].start = <<9, 0>> /\ Templates[i].end = <<10, 30>>
    /\ \E i \in DOMAIN Templates : Templates[i].day.int = 3
    /\ \E j \in DOMAIN StoredDirect :
          /\ StoredDirect[j].date = Wednesday
          /\ StoredDirect[j].start = <<9, 15>> /\ StoredDirect[j].end = <<9, 45>>
    /\ \E j \in DOMAIN StoredDirect : StoredDirect[j].date = Thursday
    /\ Len(MergedEvents) = 3
    /\ MergedEvents[1].start = <<9, 0>> /\ MergedEvents[1].end = <<9, 15>>
    /\ MergedEvents[3].start = <<9, 45>> /\ MergedEvents[3].end = <<10, 30>>

Contains(D, S) == Start(D) <= Start(S) /\ End(S) <= End(D)

\* C6: whenever directStart <= schedStart and schedEnd <= directEnd,
\* split_schedule_event returns no segment and the schedule event is absent
\* from the output of merge_events.
C6_ContainedIsRemoved ==
    Merged =>
        \A p \in MergePairs :
            LET S == MergeSchedule[p[1]]
                D == MergeDirect[p[2]]
            IN  Contains(D, S) =>
                    /\ split_schedule_event(S, D) = <<>>
                    /\ Len(SegmentsOf(S)) = 0

\* C7: a schedule event that overlaps none of the date's direct events (one
\* that only touches a direct event included) is in the output exactly once,
\* every field as it was and without a _split tag; with no direct events
\* every schedule event is.
C7_UntouchedPassesThrough ==
    Merged =>
        \A i \in DOMAIN MergeSchedule :
            LET S == MergeSchedule[i]
            IN  (\A k \in DOMAIN MergeDirect : ~SpansOverlap(S, MergeDirect[k]))
                    => /\ Len(SegmentsOf(S)) = 1
                       /\ DictDel(SegmentsOf(S)[1], "_source") = S
                       /\ "_split" \notin DOMAIN SegmentsOf(S)[1]

\* a schedule event ends where a direct event starts and comes out whole,
\* while another schedule event of the date is cut
C7_Witness ==
    /\ Merged
    /\ \E p \in MergePairs :
          /\ End(MergeSchedule[p[1]]) = Start(MergeDirect[p[2]])
          /\ Start(MergeSchedule[p[1]]) < End(MergeSchedule[p[1]])
          /\ \A k \in DOMAIN MergeDirect :
                ~SpansOverlap(MergeSchedule[p[1]], MergeDirect[k])
          /\ Len(SegmentsOf(MergeSchedule[p[1]])) = 1
    /\ \E i \in DOMAIN MergeSchedule :
          \E k \in DOMAIN SegmentsOf(MergeSchedule[i]) :
              "_split" \in DOMAIN SegmentsOf(MergeSchedule[i])[k]

\* the place an output event had in the list that merge_events sorts:
\* schedule segments in schedule order, then direct events in input order
PriorRank(e) ==
    IF e._source = "schedule" THEN e._original_idx
    ELSE Len(Templates) + e._direct_index

\* C8: the list merge_events returns is ordered by non-decreasing start, and
\* events with equal start keep their prior order: schedule segments in
\* schedule order before direct events in direct-input order.
C8_SortedAndStable ==
    Merged =>
        \A i, j \in DOMAIN MergedEvents :
            i < j =>
                /\ Start(MergedEvents[i]) <= Start(MergedEvents[j])
                /\ Start(MergedEvents[i]) = Start(MergedEvents[j])
                     => PriorRank(MergedEvents[i]) <= PriorRank(MergedEvents[j])

\* two direct events with the same start, written differently, stay in input
\* order behind an earlier schedule event
C8_Witness ==
    /\ Merged
    /\ Len(MergedEvents) = 3
    /\ MergedEvents[1]._source = "schedule"
    /\ MergedEvents[2]._source = "direct" /\ MergedEvents[3]._source = "direct"
    /\ MergedEvents[2].start = <<9, 15>> /\ MergedEvents[3].start = <<8, 75>>
    /\ MergedEvents[2]._direct_index < MergedEvents[3]._direct_index

\* the direct events of the output
DirectOut == SelectSeq(MergedEvents, LAMBDA e : e._source = "direct")

\* C9: every direct event passed to merge_events is in the output exactly
\* once, its start, end, title and type unchanged and _source = direct,
\* whatever the schedule events and the other direct events are.
C9_DirectKept ==
    Merged =>
        /\ Len(DirectOut) = Len(MergeDirect)
        /\ \A k \in DOMAIN MergeDirect :
              LET same == {i \in DOMAIN DirectOut :
                              DirectOut[i]._direct_index = MergeDirect[k]._direct_index}
              IN  /\ Cardinality(same) = 1
                  /\ \A i \in same :
                        /\ DirectOut[i].start = MergeDirect[k].start
                        /\ DirectOut[i].end = MergeDirect[k].end
                        /\ DirectOut[i].title = MergeDirect[k].title
                        /\ DirectOut[i].type = MergeDirect[k].type
                        /\ DictDel(DirectOut[i], "_source") = MergeDirect[k]

\* two direct events that overlap each other, one written "8:75", over a
\* schedule event that both cut
C9_Witness ==
    /\ Merged
    /\ Len(MergeDirect) = 2
    /\ SpansOverlap(MergeDirect[1], MergeDirect[2])
    /\ MergeDirect[2].start = <<8, 75>>
    /\ \E i \in DOMAIN MergeSchedule :
          /\ SpansOverlap(MergeSchedule[i], MergeDirect[1])
          /\ SpansOverlap(MergeSchedule[i], MergeDirect[2])
          /\ Len(SegmentsOf(MergeSchedule[i])) = 1

(***************************************************************************)
(* The statistics of one stored schedule: up to MaxStats templates that    *)
(* validate_event accepts, overwriteable ones and others, on two days.     *)
(***************************************************************************)
MaxStats == 3

\* a template without the optional overwriteable key
PlainTemplate(day, start, end) ==
    [day |-> [int |-> day], start |-> start, end |-> end, title |-> "Lecture",
     type |-> "class"]

OccluderTimes == {<<9, 30>>, <<10, 0>>, <<11, 0>>, <<11, 15>>}

StatsTemplates ==
    {t \in {LegacyTemplate(0, <<9, 0>>, <<12, 0>>),
            LegacyTemplate(0, <<9, 30>>, <<11, 0>>),
            LegacyTemplate(0, <<12, 0>>, <<9, 0>>),
            LegacyTemplate(0, <<9, 0>>, <<12, 60>>)}
             \cup {PlainTemplate(0, s, e) : s \in OccluderTimes, e \in OccluderTimes}
             \cup {PlainTemplate(1, <<9, 30>>, <<10, 0>>),
                   PlainTemplate(0, <<9, 0>>, <<12, 0>>),
                   [PlainTemplate(0, <<11, 0>>, <<12, 0>>) EXCEPT !.type = "work"]} :
        validate_event(t).valid}

InitStats ==
    /\ \E events \in SeqsUpTo(StatsTemplates, MaxStats) :
          schedules = (WeekFile :> [name |-> "Week", events |-> events])
    /\ calendar = _get_default_calendar
    /\ result = NoResult
    /\ _schedule_name_cache = <<>>

\* the schedule by its file name, by its name without the suffix, and a
\* schedule that is not on disk
GetSchedule ==
    /\ \E filename \in {WeekFile, <<"a", "">>, <<"b", "">>} :
           get_schedule(filename)
    /\ UNCHANGED _schedule_name_cache

NextStats == GetSchedule

SpecStats == InitStats /\ [][NextStats]_vars

\* the request was answered with the schedule and its statistics
StatsDone == "value" \in DOMAIN result

StatsEvents == result.value.schedule.events

\* the minutes of [E.start, E.end) outside the spans of the non-overwriteable
\* events of the same day
Unoccluded(E, events) ==
    Minutes(E) \ UNION {Minutes(events[k]) :
                           k \in {j \in DOMAIN events :
                                     /\ ~DictGet(events[j], "overwriteable", FALSE)
                                     /\ events[j].day = E.day}}

\* C10: 60 x calculate_effective_duration(E, events) is E.end - E.start when
\* E is not overwriteable, and when E is overwriteable the number of minutes
\* of [E.start, E.end) outside the union of the spans of the
\* non-overwriteable events of the same day.
C10_EffectiveDuration ==
    StatsDone =>
        \A i \in DOMAIN StatsEvents :
            LET E == StatsEvents[i]
                h == calculate_effective_duration(E, StatsEvents)
            IN  60 * h.num =
                    h.den * (IF DictGet(E, "overwriteable", FALSE)
                             THEN Cardinality(Unoccluded(E, StatsEvents))
                             ELSE End(E) - Start(E))

(***************************************************************************)
(* schedule_io.py: the calls that write a schedule file.  In the           *)
(* specifications below a result also names the call it answers, so that   *)
(* the value of one call is never read as the value of another.            *)
(***************************************************************************)
Called(call, r) == ("call" :> call) @@ r

Answered(call) == "call" \in DOMAIN result /\ result.call = call /\ result.ok

\* _load_raw_schedule raises when the file is not on disk
raw_schedule_missing(filename) == sanitize_filename(filename) \notin DOMAIN schedules

NotFound(filename) ==
    Raise("FileNotFoundError", <<"Schedule not found", sanitize_filename(filename)>>)

LoadSchedule(filename) ==
    /\ result' = Called("load_schedule", load_schedule(filename))
    /\ schedules' = load_schedule_files(filename)
    /\ UNCHANGED calendar

save_schedule(filename, data) ==
    LET v == validate_schedule_structure(data)
        safe_name == sanitize_filename(filename)
    IN  IF ~v.valid
        THEN /\ result' = Called("save_schedule",
                                 Raise("ValueError", <<"Invalid schedule data">> \o v.msg))
             /\ UNCHANGED <<calendar, schedules>>
        ELSE /\ schedules' = DictSet(schedules, safe_name, data)
             /\ result' = Called("save_schedule", Return(safe_name))
             /\ UNCHANGED calendar

add_event(filename, event_data) ==
    LET v == validate_event(event_data)
        safe_name == sanitize_filename(filename)
        data == [schedules[safe_name] EXCEPT !.events = Append(@, event_data)]
    IN  IF ~v.valid
        THEN /\ result' = Called("add_event",
                                 Raise("ValueError", <<"Invalid event">> \o v.msg))
             /\ UNCHANGED <<calendar, schedules>>
        ELSE IF raw_schedule_missing(filename)
        THEN /\ result' = Called("add_event", NotFound(filename))
             /\ UNCHANGED <<calendar, schedules>>
        ELSE /\ schedules' = [schedules EXCEPT ![safe_name] = data]
             /\ result' = Called("add_event", Return(Len(data.events) - 1))
             /\ UNCHANGED calendar

update_event(filename, index, event_data) ==
    LET v == validate_event(event_data)
        safe_name == sanitize_filename(filename)
        data == schedules[safe_name]
    IN  IF ~v.valid
        THEN /\ result' = Called("update_event",
                                 Raise("ValueError", <<"Invalid event">> \o v.msg))
             /\ UNCHANGED <<calendar, schedules>>
        ELSE IF raw_schedule_missing(filename)
        THEN /\ result' = Called("update_event", NotFound(filename))
             /\ UNCHANGED <<calendar, schedules>>
        ELSE IF index < 0 \/ index >= Len(data.events)
        THEN /\ result' = Called("update_event",
                                 Raise("IndexError", <<"Event index out of range", index>>))
             /\ UNCHANGED <<calendar, schedules>>
        ELSE /\ schedules' = [schedules EXCEPT ![safe_name].events[index + 1] = event_data]
             /\ result' = Called("update_event", Return(TRUE))
             /\ UNCHANGED calendar

delete_event(filename, index) ==
    LET safe_name == sanitize_filename(filename)
        data == schedules[safe_name]
    IN  IF raw_schedule_missing(filename)
        THEN /\ result' = Called("delete_event", NotFound(filename))
             /\ UNCHANGED <<calendar, schedules>>
        ELSE IF index < 0 \/ index >= Len(data.events)
        THEN /\ result' = Called("delete_event",
                                 Raise("IndexError", <<"Event index out of range", index>>))
             /\ UNCHANGED <<calendar, schedules>>
        ELSE /\ schedules' = [schedules EXCEPT ![safe_name].events = Pop(@, index)]
             /\ result' = Called("delete_event", Return(TRUE))
             /\ UNCHANGED calendar

(***************************************************************************)
(* Editing and loading schedules: any sequence of save_schedule,           *)
(* add_event, update_event, delete_event and load_schedule calls.  The     *)
(* edits address a.json, which starts empty; many.json holds one event of  *)
(* each of 17 types (one more than the palette has colors) and is only     *)
(* loaded.                                                                 *)
(***************************************************************************)
MaxTemplates == 2

ManyFile == <<"many", ".json">>

Legacy(day, start, end, type) ==
    [day |-> day, start |-> start, end |-> end, title |-> "Standup", type |-> type]

Stamp(day, start, end) == [day |-> day, start |-> start, end |-> end]

Stamped(timestamps) ==
    [title |-> "Lunch", type |-> "food", sub |-> "canteen", timestamps |-> timestamps]

\* the event_data of the requests: accepted and rejected ones
EventInputs ==
    {Legacy([int |-> 0], <<9, 0>>, <<10, 0>>, "work"),
     Legacy([list |-> <<0, 2>>], <<9, 0>>, <<10, 0>>, "class"),
     Legacy([list |-> <<1, 1>>], <<14, 0>>, <<15, 30>>, "work"),
     Legacy([list |-> <<>>], <<9, 0>>, <<10, 0>>, "work"),
     Legacy([int |-> 7], <<9, 0>>, <<10, 0>>, "work"),
     Legacy([int |-> 8], <<9, 0>>, <<10, 0>>, "work"),
     Legacy([int |-> -1], <<9, 0>>, <<10, 0>>, "work"),
     Legacy([list |-> <<6, 7>>], <<9, 0>>, <<10, 0>>, "work"),
     Legacy([int |-> 0], <<12, 0>>, <<9, 0>>, "work"),
     Legacy([int |-> 0], <<8, 75>>, <<10, 0>>, "work"),
     DictDel(Legacy([int |-> 0], <<9, 0>>, <<10, 0>>, "work"), "title"),
     Stamped(<<Stamp([int |-> 4], <<12, 0>>, <<13, 0>>),
               Stamp([list |-> <<5, 6>>], <<18, 0>>, <<19, 0>>)>>),
     Stamped(<<>>),
     Stamped(<<Stamp([int |-> 7], <<12, 0>>, <<13, 0>>)>>)}

\* the bodies of the save requests
ScheduleInputs ==
    {[name |-> "Week", events |-> events] :
        events \in {<<>>,
                    <<Legacy([list |-> <<0, 2>>], <<9, 0>>, <<10, 0>>, "class")>>,
                    <<Legacy([int |-> 0], <<12, 0>>, <<9, 0>>, "work")>>,
                    <<Legacy([int |-> 7], <<9, 0>>, <<10, 0>>, "work")>>}}
        \cup {[name |-> "Week", events |-> <<>>,
               color_mappings |-> [work |-> "teal"]],
              [name |-> "Week", events |-> <<>>,
               color_mappings |-> [work |-> "crimson"]]}

ManySchedule ==
    [name |-> "Many",
     events |-> [k \in 1..(Len(PREDEFINED_COLORS) + 1) |->
                    Legacy([int |-> 0], <<9, 0>>, <<10, 0>>, SortedTypeNames[k])]]

InitSchedule ==
    /\ schedules = (WeekFile :> EmptySchedule("Week")) @@ (ManyFile :> ManySchedule)
    /\ calendar = _get_default_calendar
    /\ result = NoResult
    /\ _schedule_name_cache = <<>>

SaveSchedule ==
    /\ \E filename \in {WeekFile, <<"a", "">>}, data \in ScheduleInputs :
           save_schedule(filename, data)
    /\ UNCHANGED _schedule_name_cache

AddEvent ==
    /\ Len(schedules[WeekFile].events) < MaxTemplates
    /\ \E event_data \in EventInputs : add_event(<<"a", "">>, event_data)
    /\ UNCHANGED _schedule_name_cache

UpdateEvent ==
    /\ \E index \in -1..MaxTemplates, event_data \in EventInputs :
           update_event(WeekFile, index, event_data)
    /\ UNCHANGED _schedule_name_cache

DeleteEvent ==
    /\ \E filename \in {WeekFile, <<"b", "">>}, index \in -1..MaxTemplates :
           delete_event(filename, index)
    /\ UNCHANGED _schedule_name_cache

LoadAnySchedule ==
    /\ \E filename \in {WeekFile, <<"a", "">>, ManyFile, <<"b", "">>} :
           LoadSchedule(filename)
    /\ UNCHANGED _schedule_name_cache

NextSchedule ==
    SaveSchedule \/ AddEvent \/ UpdateEvent \/ DeleteEvent \/ LoadAnySchedule

SpecSchedule == InitSchedule /\ [][NextSchedule]_vars

\* the last call was a load_schedule that returned a schedule
Loaded == Answered("load_schedule")

\* the file the returned schedule was read from (schedule names are unique)
LoadedFile == CHOOSE f \in DOMAIN schedules : schedules[f].name = result.value.name

LoadedTemplates == schedules[LoadedFile].events

LoadedInstances == result.value.events

\* the day list of a day value: the list itself, or the single day
DayList(day) == IF IsList(day) THEN day.list ELSE <<day.int>>

\* the instances returned for the template at position i (from 1)
InstancesOf(i) ==
    SelectSeq(LoadedInstances, LAMBDA e : e["_original_idx"] = i - 1)

\* the (timestamp entry, day-list position) pairs of a template with timestamps
StampDays(t) ==
    {<<n, k>> \in (DOMAIN t.timestamps) \X (0..7) :
        k \in DOMAIN DayList(t.timestamps[n].day)}

\* the instances of the legacy template t are one per element of its day
\* list, each a copy of t but for the day
LegacyExpanded(t, instances) ==
    /\ Len(instances) = Len(DayList(t.day))
    /\ \A k \in DOMAIN instances :
          /\ DOMAIN instances[k] = DOMAIN t \cup {"_original_idx"}
          /\ \A key \in DOMAIN t \ {"day"} : instances[k][key] = t[key]
    /\ \A d \in 0..7 :
          Cardinality({k \in DOMAIN instances : instances[k].day = d})
              = Cardinality({k \in DOMAIN DayList(t.day) : DayList(t.day)[k] = d})

\* the instances of the template t with timestamps are one per entry and
\* element of the entry's day list, each the base fields of t with the
\* entry's start and end
StampedExpanded(t, instances) ==
    /\ Len(instances) = Cardinality(StampDays(t))
    /\ \A k \in DOMAIN instances :
          /\ DOMAIN instances[k] =
                (DOMAIN t \ {"timestamps"}) \cup {"day", "start", "end", "_original_idx"}
          /\ \A key \in DOMAIN t \ {"timestamps", "day", "start", "end"} :
                instances[k][key] = t[key]
    /\ \A n \in DOMAIN t.timestamps : \A d \in 0..7 :
          Cardinality({k \in DOMAIN instances :
                          /\ instances[k].day = d
                          /\ instances[k].start = t.timestamps[n].start
                          /\ instances[k].end = t.timestamps[n].end})
              = Cardinality({p \in StampDays(t) :
                                /\ DayList(t.timestamps[p[1]].day)[p[2]] = d
                                /\ t.timestamps[p[1]].start = t.timestamps[n].start
                                /\ t.timestamps[p[1]].end = t.timestamps[n].end})

\* the instances of a legacy template have pairwise different days
DistinctDays(instances) ==
    \A k, l \in DOMAIN instances : k # l => instances[k].day # instances[l].day

\* C11 (amended): for a legacy template whose day list has N elements,
\* expand_events produces exactly N instances, one per element of the list
\* with that element as its single day (so the days are distinct only when
\* the list repeats no day) and all other fields those of the template; for
\* a template with timestamps it produces one instance per timestamp entry
\* and element of that entry's day list (one for a scalar day), carrying the
\* entry's start and end and the template's base fields without timestamps.
C11_ExpansionComplete ==
    Loaded =>
        \A i \in DOMAIN LoadedTemplates :
            LET t == LoadedTemplates[i]
            IN  IF "timestamps" \in DOMAIN t
                THEN StampedExpanded(t, InstancesOf(i))
                ELSE LegacyExpanded(t, InstancesOf(i))

\* C11 (as stated): the same, and the instances of a legacy template have
\* pairwise distinct days.
C11_DistinctDays ==
    Loaded =>
        \A i \in DOMAIN LoadedTemplates :
            LET t == LoadedTemplates[i]
            IN  IF "timestamps" \in DOMAIN t
                THEN StampedExpanded(t, InstancesOf(i))
                ELSE /\ LegacyExpanded(t, InstancesOf(i))
                     /\ DistinctDays(InstancesOf(i))

\* a loaded schedule with a list-day legacy template and a template with
\* timestamps of a scalar and a list day
C11_Witness ==
    /\ Loaded
    /\ \E i, j \in DOMAIN LoadedTemplates :
          /\ "timestamps" \in DOMAIN LoadedTemplates[i]
          /\ Len(InstancesOf(i)) = 3
          /\ "timestamps" \notin DOMAIN LoadedTemplates[j]
          /\ Len(InstancesOf(j)) = 2

\* the list without its element at position p (from 1)
RemoveAt(list, p) == SubSeq(list, 1, p - 1) \o SubSeq(list, p + 1, Len(list))

\* the pairs of StampDays(t) before the pair p: earlier timestamp entry, or
\* the same entry and an earlier element of its day list
StampDaysBefore(t, p) ==
    {q \in StampDays(t) : q[1] < p[1] \/ (q[1] = p[1] /\ q[2] < p[2])}

\* the instances of template t are in timestamp order, then day-list order
InStampOrder(t, instances) ==
    \A p \in StampDays(t) :
        LET m == Cardinality(StampDaysBefore(t, p)) + 1
        IN  /\ m \in DOMAIN instances
            /\ instances[m].day = DayList(t.timestamps[p[1]].day)[p[2]]
            /\ instances[m].start = t.timestamps[p[1]].start
            /\ instances[m].end = t.timestamps[p[1]].end

InDayListOrder(t, instances) ==
    \A k \in DOMAIN DayList(t.day) :
        /\ k \in DOMAIN instances
        /\ instances[k].day = DayList(t.day)[k]
        /\ instances[k].start = t.start
        /\ instances[k].end = t.end

\* each returned instance points at a stored template, the instances are in
\* template order, and those of one template are in its own order
OriginalIdxPointsBack ==
    /\ \A k \in DOMAIN LoadedInstances :
          LoadedInstances[k]["_original_idx"] \in 0..(Len(LoadedTemplates) - 1)
    /\ \A k, l \in DOMAIN LoadedInstances :
          k < l => LoadedInstances[k]["_original_idx"] <= LoadedInstances[l]["_original_idx"]
    /\ \A i \in DOMAIN LoadedTemplates :
          LET t == LoadedTemplates[i]
          IN  /\ \A k \in DOMAIN InstancesOf(i) : InstancesOf(i)[k].title = t.title
              /\ IF "timestamps" \in DOMAIN t
                 THEN InStampOrder(t, InstancesOf(i))
                 ELSE InDayListOrder(t, InstancesOf(i))

\* update_event and delete_event with the _original_idx of a returned
\* instance replace and remove the template of that instance, and no other
EditsAddressTemplate ==
    (Loaded /\ LoadedFile = WeekFile) =>
        \A k \in DOMAIN LoadedInstances :
            LET index == LoadedInstances[k]["_original_idx"]
            IN  /\ (/\ result'.call = "delete_event"
                     /\ result'.ok
                     /\ delete_event(WeekFile, index)) =>
                      schedules'[WeekFile].events = RemoveAt(LoadedTemplates, index + 1)
                /\ \A event_data \in EventInputs :
                      (/\ result'.call = "update_event"
                       /\ result'.ok
                       /\ update_event(WeekFile, index, event_data)) =>
                          /\ schedules'[WeekFile].events[index + 1] = event_data
                          /\ RemoveAt(schedules'[WeekFile].events, index + 1)
                                 = RemoveAt(LoadedTemplates, index + 1)

\* C12: every instance returned by load_schedule carries as _original_idx
\* the position (from 0) in the stored template list of the template it was
\* expanded from; the instances appear in template order, then timestamp
\* order, then day-list order; and update_event / delete_event called with
\* that index on the unchanged schedule address exactly that template.
C12_OriginalIdx ==
    /\ [](Loaded => OriginalIdxPointsBack)
    /\ [][EditsAddressTemplate]_vars

\* a loaded schedule of two templates, the second with timestamps and three
\* instances
C12_Witness ==
    /\ Loaded
    /\ LoadedFile = WeekFile
    /\ Len(LoadedTemplates) = 2
    /\ "timestamps" \in DOMAIN LoadedTemplates[2]
    /\ Len(InstancesOf(2)) = 3
    /\ Len(InstancesOf(1)) = 2

(***************************************************************************)
(* Rejected calendar entries: add / update / delete calls on an empty      *)
(* calendar with parseable dates, for the schedule a.json and for the      *)
(* file "a" that is not on disk.                                           *)
(***************************************************************************)
MaxConflict == 2

ConflictDates == {<<2025, 1, 10>>, <<2025, 1, 15>>, <<2025, 1, 20>>, <<2025, 1, 25>>}

ConflictFiles == {<<"a", ".json">>, <<"a", "">>}

AddConflict ==
    /\ Len(calendar.entries) < MaxConflict
    /\ \E s \in ConflictDates, e \in ConflictDates, f \in ConflictFiles :
          add_calendar_entry(s, e, f)
    /\ UNCHANGED _schedule_name_cache

UpdateConflict ==
    /\ \E i \in 0..(MaxConflict - 1), s \in ConflictDates, e \in ConflictDates,
          f \in ConflictFiles :
           update_calendar_entry(i, s, e, f)
    /\ UNCHANGED _schedule_name_cache

DeleteConflict ==
    /\ \E i \in 0..(MaxConflict - 1) : delete_calendar_entry(i)
    /\ UNCHANGED _schedule_name_cache

NextConflict == AddConflict \/ UpdateConflict \/ DeleteConflict

SpecConflict == InitEntries /\ [][NextConflict]_vars

\* the stored entries (by Python index), but those of skip, that share a
\* date with the range start_date..end_date
Conflicting(start_date, end_date, skip) ==
    {i \in (0..(Len(calendar.entries) - 1)) \ skip :
        EntryDays(calendar.entries[i + 1])
            \cap (parse_date(start_date)..parse_date(end_date)) # {}}

\* the error r names the start and end dates of one of the entries
NamesEntry(r, indexes) ==
    /\ ~r.ok
    /\ Len(r.msg) = 3
    /\ r.msg[1] = "Date range overlaps with existing entry"
    /\ \E i \in indexes :
          /\ r.msg[2] = calendar.entries[i + 1].start_date
          /\ r.msg[3] = calendar.entries[i + 1].end_date

\* the step is the call add_calendar_entry or update_calendar_entry (of the
\* entry at index, a set: {} for add) for a range that shares a date with
\* another stored entry
ConflictingCall(index, s, e, f) ==
    /\ Conflicting(s, e, index) # {}
    /\ IF index = {} THEN add_calendar_entry(s, e, f)
       ELSE \E i \in index : i < Len(calendar.entries)
                                /\ update_calendar_entry(i, s, e, f)

\* the step is a call for a range with end before start
InvertedCall(s, e, f) ==
    /\ parse_date(e) < parse_date(s)
    /\ \/ add_calendar_entry(s, e, f)
       \/ \E i \in 0..(Len(calendar.entries) - 1) : update_calendar_entry(i, s, e, f)

ConflictCalls ==
    {{}} \cup {{i} : i \in 0..(MaxConflict - 1)}

\* C13 (as stated): add_calendar_entry for a range that shares a date with
\* an existing entry, and update_calendar_entry likewise ignoring the entry
\* updated, fails with an error that names the start and end dates of a
\* conflicting entry and leaves the calendar unchanged; a range with end
\* before start is rejected with the calendar unchanged.
C13_ConflictNamed ==
    [][\A s \in ConflictDates, e \in ConflictDates, f \in ConflictFiles :
          /\ \A index \in ConflictCalls :
                ConflictingCall(index, s, e, f) =>
                    /\ NamesEntry(result', Conflicting(s, e, index))
                    /\ calendar' = calendar
          /\ InvertedCall(s, e, f) => (~result'.ok /\ calendar' = calendar)]_vars

\* C13 (amended): such a call fails and leaves the calendar unchanged; when
\* the schedule file of the request exists, the error names the start and
\* end dates of a conflicting entry (the first in stored order), and when it
\* does not, the error is that the schedule file was not found.  A range
\* with end before start is rejected with the calendar unchanged.
C13_ConflictRejected ==
    [][\A s \in ConflictDates, e \in ConflictDates, f \in ConflictFiles :
          /\ \A index \in ConflictCalls :
                ConflictingCall(index, s, e, f) =>
                    /\ ~result'.ok
                    /\ calendar' = calendar
                    /\ IF schedule_exists(f)
                       THEN /\ NamesEntry(result', Conflicting(s, e, index))
                            /\ \A i \in Conflicting(s, e, index) :
                                  result'.msg[2] = calendar.entries[i + 1].start_date
                                      => \A j \in Conflicting(s, e, index) : i <= j
                       ELSE result'.msg = <<"Schedule file not found.", f>>
          /\ InvertedCall(s, e, f) => (~result'.ok /\ calendar' = calendar)]_vars

\* the entry 2025-01-15..2025-01-25 is stored alone and the last call was
\* rejected naming it
C13_Witness ==
    /\ Len(calendar.entries) = 1
    /\ calendar.entries[1].start_date = <<2025, 1, 15>>
    /\ calendar.entries[1].end_date = <<2025, 1, 25>>
    /\ NamesEntry(result, {0})

(***************************************************************************)
(* schedule_io.py delete_schedule, calendar_io.py                          *)
(* remove_mappings_for_schedule and app.py DELETE /api/schedules/<name>    *)
(***************************************************************************)
\* the entries left by remove_mappings_for_schedule
remove_mappings_for_schedule(schedule_filename) ==
    SelectSeq(load_calendar.entries,
              LAMBDA entry : entry.schedule_filename # schedule_filename)

delete_schedule_route(filename) ==
    LET safe_name == sanitize_filename(filename)
        entries == remove_mappings_for_schedule(filename)
        removed_mappings == Len(calendar.entries) - Len(entries)
    IN  IF safe_name \notin DOMAIN schedules
        THEN /\ result' = Called("delete_schedule_route", NotFound(filename))
             /\ UNCHANGED <<calendar, schedules, _schedule_name_cache>>
        ELSE /\ schedules' = DictDel(schedules, safe_name)
             /\ _schedule_name_cache' = DictDel(_schedule_name_cache, filename)
             /\ calendar' = [calendar EXCEPT !.entries = entries]
             /\ result' = Called("delete_schedule_route",
                                 Return([success |-> TRUE,
                                         removed_mappings |-> removed_mappings]))

(***************************************************************************)
(* Deleting schedules that calendar entries reference: add-entry and       *)
(* delete-schedule requests on an empty calendar with a.json and b.json    *)
(* on disk; a delete request names the file with or without its suffix.    *)
(***************************************************************************)
MaxCascade == 2

CascadeFiles == {<<"a", ".json">>, <<"b", ".json">>, <<"a", "">>, <<"b", "">>}

AddCascade ==
    /\ Len(calendar.entries) < MaxCascade
    /\ \E s \in ConflictDates, e \in ConflictDates, f \in CascadeFiles :
          add_calendar_entry(s, e, f)
    /\ UNCHANGED _schedule_name_cache

DeleteScheduleRoute == \E filename \in CascadeFiles : delete_schedule_route(filename)

NextCascade == AddCascade \/ DeleteScheduleRoute

SpecCascade == InitEntries /\ [][NextCascade]_vars

\* every stored entry references a schedule file on disk
EntriesReferenceFiles ==
    \A i \in DOMAIN calendar.entries :
        calendar.entries[i].schedule_filename \in DOMAIN schedules

\* a successful delete-schedule step leaves no entry for the deleted file
\* and keeps the other entries as they were
DeleteCascades ==
    \A filename \in CascadeFiles :
        (/\ "call" \in DOMAIN result'
         /\ result'.ok
         /\ delete_schedule_route(filename)) =>
            calendar'.entries =
                SelectSeq(calendar.entries,
                          LAMBDA entry : entry.schedule_filename
                                            # sanitize_filename(filename))

\* C14: after the delete-schedule operation succeeds for a schedule, no
\* stored entry references that schedule's file, whether the request names
\* it with or without the .json suffix, and the entries of other schedules
\* are unchanged; over any sequence of add-entry and delete-schedule
\* operations every stored entry references an existing schedule file.
C14_DeleteCascades ==
    /\ []EntriesReferenceFiles
    /\ [][DeleteCascades]_vars

\* the types of the stored templates of a schedule
TypesOf(data) == {DictGet(data.events[i], "type", "other") : i \in DOMAIN data.events}

\* the number of the types of the set that come before t in alphabetical order
AlphabeticalRank(t, types) ==
    LET place(u) == CHOOSE k \in DOMAIN SortedTypeNames : SortedTypeNames[k] = u
    IN  Cardinality({u \in types : place(u) < place(t)})

\* the palette names round-robin over the alphabetically sorted types
RoundRobin(types) ==
    [t \in types |->
        PREDEFINED_COLORS[(AlphabeticalRank(t, types) % Len(PREDEFINED_COLORS)) + 1]]

\* a load of a valid schedule that has no color_mappings returns the
\* round-robin mappings and writes them to the file
FirstLoadMigrates ==
    \A filename \in DOMAIN schedules :
        (/\ "call" \in DOMAIN result'
         /\ result'.call = "load_schedule"
         /\ result'.ok
         /\ "color_mappings" \notin DOMAIN schedules[filename]
         /\ result'.value.name = schedules[filename].name
         /\ LoadSchedule(filename)) =>
            /\ result'.value.color_mappings = RoundRobin(TypesOf(schedules[filename]))
            /\ schedules'[filename] =
                  DictSet(schedules[filename], "color_mappings",
                          RoundRobin(TypesOf(schedules[filename])))

\* a second load right after a load returns the color_mappings the first
\* returned and leaves the file as it is
SecondLoadSame ==
    /\ load_schedule(LoadedFile).ok
    /\ load_schedule(LoadedFile).value.color_mappings = result.value.color_mappings
    /\ load_schedule_files(LoadedFile) = schedules
    /\ schedules[LoadedFile].color_mappings = result.value.color_mappings

\* C15: for a stored valid schedule lacking color_mappings, the first
\* load_schedule assigns the palette names round-robin over the 16-entry
\* palette to the alphabetically sorted event types and persists them, and a
\* second load right after returns identical color_mappings without
\* changing the file again.
C15_MigrationIdempotent ==
    /\ [][FirstLoadMigrates]_vars
    /\ [](Len(PREDEFINED_COLORS) = 16 /\ (Loaded => SecondLoadSame))

\* the schedule of 17 types was loaded: its last type has the color of its
\* first
C15_Witness ==
    /\ Loaded
    /\ LoadedFile = ManyFile
    /\ Cardinality(DOMAIN result.value.color_mappings) = Len(PREDEFINED_COLORS) + 1
    /\ result.value.color_mappings["travel"] = result.value.color_mappings["art"]
    /\ result.value.color_mappings["break"] = "yellow"

\* the day values of an event: of its timestamp entries, or its own
DayValues(event) ==
    IF "timestamps" \in DOMAIN event
    THEN {event.timestamps[n].day : n \in DOMAIN event.timestamps}
    ELSE {event.day}

\* the event is well-formed but perhaps for its days: it has its fields and
\* its times match HH:MM
WellFormedButDays(event) ==
    /\ {"title", "type"} \subseteq DOMAIN event
    /\ IF "timestamps" \in DOMAIN event
       THEN \A n \in DOMAIN event.timestamps :
               /\ time_pattern_match(event.timestamps[n].start)
               /\ time_pattern_match(event.timestamps[n].end)
       ELSE /\ {"day", "start", "end"} \subseteq DOMAIN event
            /\ time_pattern_match(event.start)
            /\ time_pattern_match(event.end)

\* every day is an integer of 0..7 and no day list is empty
DaysInRange(event) ==
    \A day \in DayValues(event) :
        /\ Len(DayList(day)) > 0
        /\ \A k \in DOMAIN DayList(day) : DayList(day)[k] \in 0..7

\* C16: validation of the day field (a single integer, or each element of a
\* day list, in legacy events and in timestamp entries) accepts every
\* integer in 0..7 and rejects with a validation error every integer outside
\* 0..7 and every empty day list: add_event of an event that is well-formed
\* but perhaps for its days succeeds exactly when its days are in range.
C16_DayRange ==
    [][\A event_data \in EventInputs :
          (/\ "call" \in DOMAIN result'
           /\ result'.call = "add_event"
           /\ WellFormedButDays(event_data)
           /\ add_event(<<"a", "">>, event_data)) =>
              /\ result'.ok <=> DaysInRange(event_data)
              /\ ~result'.ok => result'.error = "ValueError"]_vars

(***************************************************************************)
(* Sundays: a stored schedule whose templates use the legacy day 7, looked *)
(* up for Sunday 2025-01-19 and for Monday 2025-01-13 of the week the      *)
(* calendar maps to it                                                     *)
(***************************************************************************)
MaxSunday == 2

Sunday == <<2025, 1, 19>>

Monday == <<2025, 1, 13>>

\* templates of a schedule file written with days 1..7
SundayTemplates ==
    {Legacy(day, time[1], time[2], "work") :
        day \in {[int |-> 0], [int |-> 5], [int |-> 6], [int |-> 7],
                 [list |-> <<6, 7>>], [list |-> <<0, 7>>]},
        time \in {<<<<9, 0>>, <<10, 0>>>>, <<<<11, 0>>, <<12, 0>>>>}}

InitSunday ==
    /\ \E events \in SeqsUpTo(SundayTemplates, MaxSunday) :
          schedules = (WeekFile :> [name |-> "Week", events |-> events])
    /\ calendar = [entries |-> <<[start_date |-> Monday,
                                  end_date |-> Sunday,
                                  schedule_filename |-> WeekFile]>>,
                   direct_events |-> <<>>]
    /\ result = NoResult
    /\ _schedule_name_cache = <<>>

GetSunday ==
    /\ get_calendar_date(Sunday)
    /\ UNCHANGED _schedule_name_cache

GetMonday ==
    /\ get_calendar_date(Monday)
    /\ UNCHANGED _schedule_name_cache

NextSunday == GetSunday \/ GetMonday

SpecSunday == InitSunday /\ [][NextSunday]_vars

\* the instances of the stored templates, as expand_events makes them
StoredInstances == expand_events(schedules[WeekFile].events)

\* day 7 is Sunday, and every day of 0..6 is itself
NormalizedDay(day) == IF day = 7 THEN 6 ELSE day

\* the list is the instances whose day normalizes to d, in their order
ExactlyTheDay(list, instances, d) ==
    \E at \in [DOMAIN list -> DOMAIN instances] :
        /\ \A k \in DOMAIN list : list[k] = instances[at[k]]
        /\ \A k, l \in DOMAIN list : k < l => at[k] < at[l]
        /\ \A n \in DOMAIN instances :
              NormalizedDay(instances[n].day) = d <=> \E k \in DOMAIN list : at[k] = n

\* the stored templates that have day 7
SundayAliased ==
    {i \in DOMAIN schedules[WeekFile].events :
        \E k \in DOMAIN DayList(schedules[WeekFile].events[i].day) :
            DayList(schedules[WeekFile].events[i].day)[k] = 7}

\* the response for the Sunday shows an instance of day 7 of template i
ShownOnSunday(r, i) ==
    /\ r.ok
    /\ \E k \in DOMAIN r.value.events :
          /\ r.value.events[k]._original_idx = i - 1
          /\ r.value.events[k].day = 7

\* C17: get_events_for_day(events, d) returns, in input order, exactly the
\* events whose day normalizes to d, where 7 normalizes to 6 and each of 0..6
\* to itself; consequently a stored schedule event with day 7 is shown on
\* Sundays when the schedule is loaded and merged for a Sunday date.
C17_SundayAlias ==
    /\ [](\A d \in 0..6 :
             ExactlyTheDay(get_events_for_day(StoredInstances, d), StoredInstances, d))
    /\ [][get_calendar_date(Sunday) =>
             \A i \in SundayAliased : ShownOnSunday(result', i)]_vars

\* the time ranges of a template: of its timestamp entries, or its own
TimeRanges(event) ==
    IF "timestamps" \in DOMAIN event
    THEN {<<event.timestamps[n].start, event.timestamps[n].end>> :
             n \in DOMAIN event.timestamps}
    ELSE {<<event.start, event.end>>}

\* start < end in minutes since midnight, for each time range
StartBeforeEnd(event) ==
    \A range \in TimeRanges(event) : parse_time(range[1]) < parse_time(range[2])

\* C18: every event template accepted by validation, and hence every event
\* that save_schedule, add_event or update_event stores and every instance
\* load_schedule returns, satisfies start < end in minutes since midnight for
\* each of its time ranges.
C18_StartBeforeEnd ==
    /\ \A filename \in DOMAIN schedules :
          \A i \in DOMAIN schedules[filename].events :
              validate_event(schedules[filename].events[i]).valid =>
                  StartBeforeEnd(schedules[filename].events[i])
    /\ Loaded => \A k \in DOMAIN LoadedInstances : StartBeforeEnd(LoadedInstances[k])

(***************************************************************************)
(* calendar_io.py: the direct events                                       *)
(***************************************************************************)
add_direct_event(event_data) ==
    LET v == validate_direct_event(event_data)
        config == load_calendar
        saved == [config EXCEPT !.direct_events =
                                    Append(@, direct_event_record(event_data))]
    IN  IF ~v.valid
        THEN /\ result' = Called("add_direct_event", Raise("ValueError", v.msg))
             /\ UNCHANGED <<calendar, schedules>>
        ELSE /\ calendar' = saved
             /\ result' = Called("add_direct_event",
                                 Return(Len(saved.direct_events) - 1))
             /\ UNCHANGED schedules

update_direct_event(index, event_data) ==
    LET config == load_calendar
        v == validate_direct_event(event_data)
    IN  IF index < 0 \/ index >= Len(config.direct_events)
        THEN /\ result' = Called("update_direct_event",
                                 Raise("IndexError", <<"Event index out of range.", index>>))
             /\ UNCHANGED <<calendar, schedules>>
        ELSE IF ~v.valid
        THEN /\ result' = Called("update_direct_event", Raise("ValueError", v.msg))
             /\ UNCHANGED <<calendar, schedules>>
        ELSE /\ calendar' = [config EXCEPT !.direct_events[index + 1] =
                                               direct_event_record(event_data)]
             /\ result' = Called("update_direct_event", Return(<<>>))
             /\ UNCHANGED schedules

delete_direct_event(index) ==
    LET config == load_calendar
    IN  IF index < 0 \/ index >= Len(config.direct_events)
        THEN /\ result' = Called("delete_direct_event",
                                 Raise("IndexError", <<"Event index out of range.", index>>))
             /\ UNCHANGED <<calendar, schedules>>
        ELSE /\ calendar' = [config EXCEPT !.direct_events = Pop(@, index)]
             /\ result' = Called("delete_direct_event", Return(<<>>))
             /\ UNCHANGED schedules

(***************************************************************************)
(* Direct events: any sequence of add / update / delete calls on an empty  *)
(* calendar                                                                *)
(***************************************************************************)
MaxStored == 2

\* the event_data of the requests: "8:75", "25:00" and "10" are times that
\* int() parses, "" is one it does not
DirectInputs ==
    {DirectData(Wednesday, <<9, 0>>, <<10, 30>>),
     DictSet(DirectData(Wednesday, <<9, 15>>, <<9, 45>>), "type", "meeting"),
     DictSet(DictSet(DirectData(Thursday, <<9, 0>>, <<9, 45>>), "sub", "room 2"),
             "color", "teal"),
     DictDel(DirectData(Wednesday, <<9, 0>>, <<10, 30>>), "title"),
     DictDel(DirectData(Wednesday, <<9, 0>>, <<10, 30>>), "end"),
     DirectData(<<2025, 2, 30>>, <<9, 0>>, <<10, 30>>),
     DirectData(Wednesday, <<8, 75>>, <<10, 30>>),
     DirectData(Wednesday, <<9, 0>>, <<25, 0>>),
     DirectData(Wednesday, <<10>>, <<10, 30>>),
     DirectData(Wednesday, <<>>, <<10, 30>>),
     DirectData(Wednesday, <<10, 30>>, <<9, 0>>),
     DirectData(Wednesday, <<9, 0>>, <<9, 0>>)}

InitDirect ==
    /\ calendar = _get_default_calendar
    /\ schedules = (WeekFile :> EmptySchedule("Week"))
    /\ result = NoResult
    /\ _schedule_name_cache = <<>>

AddDirect ==
    /\ Len(calendar.direct_events) < MaxStored
    /\ \E event_data \in DirectInputs : add_direct_event(event_data)
    /\ UNCHANGED _schedule_name_cache

UpdateDirect ==
    /\ \E index \in -1..MaxStored, event_data \in DirectInputs :
           update_direct_event(index, event_data)
    /\ UNCHANGED _schedule_name_cache

DeleteDirect ==
    /\ \E index \in -1..MaxStored : delete_direct_event(index)
    /\ UNCHANGED _schedule_name_cache

NextDirect == AddDirect \/ UpdateDirect \/ DeleteDirect

SpecDirect == InitDirect /\ [][NextDirect]_vars

\* the event lacks a field, or a time of it is no well-formed HH:MM, or its
\* start is not before its end
Unacceptable(event_data) ==
    \/ ~({"date", "title", "start", "end"} \subseteq DOMAIN event_data)
    \/ ~time_pattern_match(event_data.start)
    \/ ~time_pattern_match(event_data.end)
    \/ ~(parse_time(event_data.start) < parse_time(event_data.end))

\* the call is answered with a validation error and the store is as before
RejectedUnchanged ==
    /\ ~result'.ok
    /\ result'.error = "ValueError"
    /\ calendar' = calendar

\* a stored direct event has well-formed times with start < end, only the
\* allowed fields, and a type
WellStored(event) ==
    /\ DOMAIN event \subseteq {"date", "title", "type", "start", "end", "sub"}
    /\ "type" \in DOMAIN event
    /\ time_pattern_match(event.start)
    /\ time_pattern_match(event.end)
    /\ parse_time(event.start) < parse_time(event.end)

\* C19: add_direct_event and update_direct_event reject with a validation
\* error, leaving the stored calendar unchanged, every event that lacks
\* date, title, start or end, whose start or end is not a well-formed HH:MM
\* time, or whose start is not before its end; so after any sequence of
\* direct-event operations every stored direct event has well-formed times
\* with start < end, only the fields date/title/type/start/end/sub, and type
\* defaulting to "other".
C19_DirectValidated ==
    /\ [][\A event_data \in DirectInputs :
             /\ (/\ "call" \in DOMAIN result'
                 /\ result'.call = "add_direct_event"
                 /\ Unacceptable(event_data)
                 /\ add_direct_event(event_data)) => RejectedUnchanged
             /\ \A index \in 0..(Len(calendar.direct_events) - 1) :
                   (/\ "call" \in DOMAIN result'
                    /\ result'.call = "update_direct_event"
                    /\ Unacceptable(event_data)
                    /\ update_direct_event(index, event_data)) => RejectedUnchanged
             /\ (/\ "call" \in DOMAIN result'
                 /\ result'.call = "add_direct_event"
                 /\ result'.ok
                 /\ "type" \notin DOMAIN event_data
                 /\ add_direct_event(event_data)) =>
                    calendar'.direct_events[Len(calendar'.direct_events)].type = "other"]_vars
    /\ [](\A k \in DOMAIN calendar.direct_events : WellStored(calendar.direct_events[k]))

(***************************************************************************)
(* pdf_generator.py: the filter of the printed events                      *)
(* None is a key the dict does not have.                                   *)
(***************************************************************************)
\* parse_time_to_minutes of pdf_generator.py
pdf_generator_parse_time_to_minutes(time_str) ==
    IF Len(time_str) = 0 THEN 0
    ELSE time_str[1] * 60 + time_str[2]

minutes_to_time_str(minutes) ==
    LET h == minutes \div 60
        m == minutes % 60
    IN  <<h, m>>

\* view_state.get(key) or default
GetOr(view_state, key, default) ==
    IF key \in DOMAIN view_state /\ view_state[key] # 0
    THEN view_state[key]
    ELSE default

filter_events(events, view_state, hidden_categories) ==
    LET hidden_set == {hidden_categories[k] : k \in DOMAIN hidden_categories}
        start_hour == GetOr(view_state, "startHour", 0)
        end_hour == GetOr(view_state, "endHour", 24)
        range_start == start_hour * 60
        range_end == end_hour * 60
        event_start(event) ==
            pdf_generator_parse_time_to_minutes(DictGet(event, "start", <<0, 0>>))
        event_end(event) ==
            pdf_generator_parse_time_to_minutes(DictGet(event, "end", <<0, 0>>))
        skipped(event) ==
            \/ DictGet(event, "type", "") \in hidden_set
            \/ /\ "daysRange" \in DOMAIN view_state
               /\ Len(view_state.daysRange) > 0
               /\ \A k \in DOMAIN view_state.daysRange :
                     view_state.daysRange[k] # DictGet(event, "day", 0)
            \/ event_end(event) <= range_start
            \/ event_start(event) >= range_end
        clip_start(event) ==
            IF event_start(event) < range_start
            THEN DictSet(event, "start", minutes_to_time_str(range_start))
            ELSE event
        clip_end(event) ==
            IF event_end(event) > range_end
            THEN DictSet(event, "end", minutes_to_time_str(range_end))
            ELSE event
        passed == SelectSeq(events, LAMBDA event : ~skipped(event))
    IN  [k \in DOMAIN passed |->
            [key \in DOMAIN passed[k] |->
                IF key = "start" THEN clip_start(passed[k]).start
                ELSE IF key = "end" THEN clip_end(passed[k]).end
                ELSE passed[k][key]]]

(***************************************************************************)
(* app.py: POST /api/schedules/<filename>/print                            *)
(* The response is the PDF drawn from the filtered events; the model keeps *)
(* the arguments of filter_events and the list it returns.                 *)
(***************************************************************************)
print_schedule(filename, data) ==
    LET time_range == DictGet(data, "timeRange", <<>>)
        hidden_categories == DictGet(data, "hiddenCategories", <<>>)
        loaded == load_schedule(filename)
        events == DictGet(loaded.value, "events", <<>>)
        hours == [startHour |-> DictGet(time_range, "startHour", 0),
                  endHour |-> DictGet(time_range, "endHour", 24)]
        view_state == IF "daysRange" \in DOMAIN data
                      THEN DictSet(hours, "daysRange", data.daysRange)
                      ELSE hours
    IN  IF ~loaded.ok
        THEN /\ result' = Called("print_schedule", loaded)
             /\ UNCHANGED <<calendar, schedules>>
        ELSE /\ result' = Called("print_schedule",
                                 Return([events |-> events,
                                         view_state |-> view_state,
                                         hidden_categories |-> hidden_categories,
                                         filtered_events |->
                                             filter_events(events, view_state,
                                                           hidden_categories)]))
             /\ schedules' = load_schedule_files(filename)
             /\ UNCHANGED calendar

(***************************************************************************)
(* Printing: a stored schedule of templates that validate_event accepts,   *)
(* printed under any of the view filters                                   *)
(***************************************************************************)
MaxPrint == 2

PrintTemplates ==
    {t \in {Legacy([int |-> 0], <<9, 0>>, <<10, 0>>, "work"),
            Legacy([list |-> <<0, 2>>], <<9, 30>>, <<11, 0>>, "class"),
            Legacy([int |-> 1], <<7, 0>>, <<13, 0>>, "work"),
            Legacy([int |-> 2], <<10, 0>>, <<12, 0>>, "class"),
            Legacy([int |-> 0], <<12, 0>>, <<9, 0>>, "work"),
            Legacy([int |-> 0], <<9, 0>>, <<24, 0>>, "work")} :
        validate_event(t).valid}

\* the requests: each key present or not
PrintRequests ==
    {hours @@ days @@ hidden :
        hours \in {("timeRange" :> (s @@ e)) :
                      s \in {<<>>} \cup {("startHour" :> h) : h \in {0, 9, 12}},
                      e \in {<<>>} \cup {("endHour" :> h) : h \in {0, 10, 24}}}
                  \cup {<<>>},
        days \in {<<>>} \cup {("daysRange" :> d) : d \in {<<>>, <<0>>, <<0, 2>>}},
        hidden \in {<<>>, ("hiddenCategories" :> <<"class">>)}}

InitPrint ==
    /\ \E events \in SeqsUpTo(PrintTemplates, MaxPrint) :
          schedules = (WeekFile :> [name |-> "Week", events |-> events])
    /\ calendar = _get_default_calendar
    /\ result = NoResult
    /\ _schedule_name_cache = <<>>

PrintSchedule ==
    /\ \E filename \in {<<"a", "">>, <<"b", "">>}, data \in PrintRequests :
           print_schedule(filename, data)
    /\ UNCHANGED _schedule_name_cache

NextPrint == PrintSchedule

SpecPrint == InitPrint /\ [][NextPrint]_vars

\* the window of the print, in minutes
WindowStart == result.value.view_state.startHour * 60

WindowEnd == result.value.view_state.endHour * 60

\* the event is dropped: its type is hidden, or a non-empty day set is given
\* without its day, or it lies entirely outside the hour window
Dropped(event) ==
    \/ \E k \in DOMAIN result.value.hidden_categories :
          result.value.hidden_categories[k] = event.type
    \/ /\ "daysRange" \in DOMAIN result.value.view_state
       /\ result.value.view_state.daysRange # <<>>
       /\ ~\E k \in DOMAIN result.value.view_state.daysRange :
              result.value.view_state.daysRange[k] = event.day
    \/ parse_time(event.end) <= WindowStart
    \/ parse_time(event.start) >= WindowEnd

Kept == SelectSeq(result.value.events, LAMBDA event : ~Dropped(event))

\* the output event is the kept one, clipped to the window
Clipped(out, event) ==
    /\ DOMAIN out = DOMAIN event
    /\ \A key \in DOMAIN event \ {"start", "end"} : out[key] = event[key]
    /\ parse_time(out.start) = Max(parse_time(event.start), WindowStart)
    /\ parse_time(out.end) = Min(parse_time(event.end), WindowEnd)

\* the output event lies inside the window with positive length
InsideWindow(out) ==
    /\ WindowStart <= parse_time(out.start)
    /\ parse_time(out.start) < parse_time(out.end)
    /\ parse_time(out.end) <= WindowEnd

\* C20: filter_events drops an event if and only if its type is in the
\* hidden set, or a non-empty day set is given and its day is not in it, or
\* it lies entirely outside the hour window; every kept event appears once,
\* in input order, with start = max(start, startHour*60) and
\* end = min(end, endHour*60) and all other fields unchanged, so every output
\* event lies inside the window with positive length; an absent or empty day
\* set keeps all days.
C20_FilterEvents ==
    Answered("print_schedule") =>
        LET filtered == result.value.filtered_events
        IN  /\ Len(filtered) = Len(Kept)
            /\ \A k \in DOMAIN filtered :
                  /\ k \in DOMAIN Kept
                  /\ Clipped(filtered[k], Kept[k])
                  /\ InsideWindow(filtered[k])

(***************************************************************************)
(* pdf_generator.py: the segments of the overwriteable events              *)
(***************************************************************************)
\* time_ranges_overlap of pdf_generator.py
\* a slip: ranges that touch counted as overlapping
time_ranges_overlap_touching(start1, end1, start2, end2) ==
    start1 <= end2 /\ end1 >= start2

pdf_generator_time_ranges_overlap(start1, end1, start2, end2) ==
    start1 < end2 /\ end1 > start2

\* a slip: the sweep not advanced past the overlap
RECURSIVE visible_segments_stuck(_, _, _, _, _)
visible_segments_stuck(overlaps, k, current_pos, segments, evt_end) ==
    IF k > Len(overlaps)
    THEN IF current_pos < evt_end
         THEN Append(segments, [start |-> current_pos, end |-> evt_end])
         ELSE segments
    ELSE visible_segments_stuck(
             overlaps, k + 1, current_pos,
             IF current_pos < overlaps[k][1]
             THEN Append(segments, [start |-> current_pos,
                                    end |-> Min(overlaps[k][1], evt_end)])
             ELSE segments,
             evt_end)

\* lines 150-169: the sweep from the k-th overlap on
RECURSIVE visible_segments(_, _, _, _, _)
visible_segments(overlaps, k, current_pos, segments, evt_end) ==
    IF k > Len(overlaps)
    THEN IF current_pos < evt_end
         THEN Append(segments, [start |-> current_pos, end |-> evt_end])
         ELSE segments
    ELSE visible_segments(
             overlaps, k + 1, Max(current_pos, overlaps[k][2]),
             IF current_pos < overlaps[k][1]
             THEN Append(segments, [start |-> current_pos,
                                    end |-> Min(overlaps[k][1], evt_end)])
             ELSE segments,
             evt_end)

\* lines 127-185: what one overwriteable event adds to the result
overwriteable_output(evt, non_overwriteable) ==
    LET evt_start == pdf_generator_parse_time_to_minutes(DictGet(evt, "start", <<0, 0>>))
        evt_end == pdf_generator_parse_time_to_minutes(DictGet(evt, "end", <<0, 0>>))
        ne_start(ne) == pdf_generator_parse_time_to_minutes(DictGet(ne, "start", <<0, 0>>))
        ne_end(ne) == pdf_generator_parse_time_to_minutes(DictGet(ne, "end", <<0, 0>>))
        overlapping ==
            SelectSeq(non_overwriteable,
                      LAMBDA ne : pdf_generator_time_ranges_overlap(
                                      evt_start, evt_end, ne_start(ne), ne_end(ne)))
        overlaps == sort_overlaps([k \in DOMAIN overlapping |->
                                      <<ne_start(overlapping[k]), ne_end(overlapping[k])>>])
        segments == visible_segments(overlaps, 1, evt_start, <<>>, evt_end)
    IN  IF Len(overlaps) = 0
        THEN <<[_isSegment |-> FALSE, _zIndex |-> 5] @@ evt>>
        ELSE [idx \in DOMAIN segments |->
                 [start |-> minutes_to_time_str(segments[idx].start),
                  end |-> minutes_to_time_str(segments[idx].end),
                  _isSegment |-> TRUE,
                  _segmentIndex |-> idx - 1,
                  _totalSegments |-> Len(segments),
                  _zIndex |-> 5,
                  _originalStart |-> evt.start,
                  _originalEnd |-> evt.end] @@ evt]

process_overlap_segments(events) ==
    LET non_overwriteable ==
            SelectSeq(events, LAMBDA e : ~DictGet(e, "overwriteable", FALSE))
        overwriteable ==
            SelectSeq(events, LAMBDA e : DictGet(e, "overwriteable", FALSE))
    IN  [k \in DOMAIN non_overwriteable |->
            [_isSegment |-> FALSE, _zIndex |-> 10] @@ non_overwriteable[k]]
        \o Flatten([k \in DOMAIN overwriteable |->
                       overwriteable_output(overwriteable[k], non_overwriteable)])

\* generate_schedule_pdf, lines 258-290: the events of each visible day and
\* what process_overlap_segments makes of them
processed_by_day(events, view_state, hidden_categories) ==
    LET filtered_events == filter_events(events, view_state, hidden_categories)
        visible_days ==
            IF "daysRange" \in DOMAIN view_state /\ Len(view_state.daysRange) > 0
            THEN {view_state.daysRange[k] : k \in DOMAIN view_state.daysRange}
            ELSE 0..6
    IN  [day \in visible_days |->
            LET day_events == SelectSeq(filtered_events,
                                        LAMBDA evt : DictGet(evt, "day", 0) = day)
            IN  [day_events |-> day_events,
                 processed |-> process_overlap_segments(day_events)]]

\* POST /api/schedules/<filename>/print with the body {}: every hour, every
\* day, nothing hidden
print_week(filename) ==
    LET loaded == load_schedule(filename)
        events == DictGet(loaded.value, "events", <<>>)
        view_state == [startHour |-> 0, endHour |-> 24]
    IN  IF ~loaded.ok
        THEN /\ result' = Called("print_week", loaded)
             /\ UNCHANGED <<calendar, schedules>>
        ELSE /\ result' = Called("print_week",
                                 Return([events |-> events,
                                         days |-> processed_by_day(events, view_state,
                                                                   <<>>)]))
             /\ schedules' = load_schedule_files(filename)
             /\ UNCHANGED calendar

(***************************************************************************)
(* Segments: a stored schedule of templates that validate_event accepts,   *)
(* printed whole                                                           *)
(***************************************************************************)
MaxSegments == 3

\* a template with the overwriteable key
FlagTemplate(day, start, end, overwriteable) ==
    [day |-> [int |-> day], start |-> start, end |-> end, title |-> "Block",
     type |-> "work", overwriteable |-> overwriteable]

SegmentTimes ==
    {<<<<8, 0>>, <<13, 0>>>>, <<<<9, 0>>, <<10, 0>>>>, <<<<9, 30>>, <<10, 30>>>>,
     <<<<10, 0>>, <<11, 0>>>>, <<<<12, 0>>, <<9, 0>>>>}

SegmentTemplates ==
    {t \in {FlagTemplate(0, time[1], time[2], o) :
               time \in SegmentTimes, o \in BOOLEAN}
             \cup {FlagTemplate(1, <<9, 0>>, <<10, 0>>, FALSE),
                   PlainTemplate(0, <<9, 15>>, <<9, 45>>)} :
        validate_event(t).valid}

InitSegments ==
    /\ \E events \in SeqsUpTo(SegmentTemplates, MaxSegments) :
          schedules = (WeekFile :> [name |-> "Week", events |-> events])
    /\ calendar = _get_default_calendar
    /\ result = NoResult
    /\ _schedule_name_cache = <<>>

PrintWeek ==
    /\ \E filename \in {<<"a", "">>, <<"b", "">>} : print_week(filename)
    /\ UNCHANGED _schedule_name_cache

NextSegments == PrintWeek

SpecSegments == InitSegments /\ [][NextSegments]_vars

\* the sum of a list of numbers
RECURSIVE SumOf(_)
SumOf(list) ==
    IF Len(list) = 0 THEN 0
    ELSE SumOf(SubSeq(list, 1, Len(list) - 1)) + list[Len(list)]

\* the print was answered with the events of each day and their output
Printed == Answered("print_week")

\* the events of the day that are not overwriteable, and those that are
Opaque(events) == SelectSeq(events, LAMBDA e : ~DictGet(e, "overwriteable", FALSE))

Yielding(events) == SelectSeq(events, LAMBDA e : DictGet(e, "overwriteable", FALSE))

\* the output record carries the fields of the event, but perhaps for its times
SameButTimes(out, e) ==
    \A key \in DOMAIN e \ {"start", "end"} : key \in DOMAIN out /\ out[key] = e[key]

\* the output record is the event, unsplit
Unsplit(out, e) ==
    /\ SameButTimes(out, e)
    /\ out.start = e.start
    /\ out.end = e.end
    /\ ~out._isSegment

\* the block of output records is what the overwriteable event E may emit
\* next to the non-overwriteable events opaque
SegmentsOfEvent(block, E, opaque) ==
    IF \A k \in DOMAIN opaque : ~SpansOverlap(E, opaque[k])
    THEN Len(block) = 1 /\ Unsplit(block[1], E)
    ELSE /\ \A k \in DOMAIN block :
               /\ SameButTimes(block[k], E)
               /\ block[k]._segmentIndex = k - 1
               /\ block[k]._totalSegments = Len(block)
               /\ Start(block[k]) < End(block[k])
               /\ Start(E) <= Start(block[k])
               /\ End(block[k]) <= End(E)
               /\ \A n \in DOMAIN opaque : ~SpansOverlap(block[k], opaque[n])
         /\ \A k, l \in DOMAIN block : k < l => End(block[k]) <= Start(block[l])
         /\ Minutes(E) \subseteq UNION {Minutes(opaque[n]) : n \in DOMAIN opaque}
               => block = <<>>

\* the output of one day: the non-overwriteable events first, each unsplit
\* with z-index 10, then a block of z-index 5 for each overwriteable event
DayOutput(events, processed) ==
    LET opaque == Opaque(events)
        yielding == Yielding(events)
        rest == SubSeq(processed, Len(opaque) + 1, Len(processed))
    IN  /\ Len(processed) >= Len(opaque)
        /\ \A k \in DOMAIN opaque :
              Unsplit(processed[k], opaque[k]) /\ processed[k]._zIndex = 10
        /\ \A k \in DOMAIN rest : rest[k]._zIndex = 5
        /\ \E size \in [DOMAIN yielding -> 0..Len(rest)] :
              LET before(i) == SumOf([k \in 1..(i - 1) |-> size[k]])
              IN  /\ before(Len(yielding) + 1) = Len(rest)
                  /\ \A i \in DOMAIN yielding :
                        SegmentsOfEvent(SubSeq(rest, before(i) + 1, before(i) + size[i]),
                                        yielding[i], opaque)

\* C21: for one day's events, process_overlap_segments emits every
\* non-overwriteable event exactly once, unsplit, ahead of all overwriteable
\* output and with the higher z-index; for each overwriteable event it emits
\* segments that are pairwise disjoint, in ascending time order, of positive
\* length, contained in the event's span, disjoint from every
\* non-overwriteable event of that day, and numbered _segmentIndex = 0..n-1
\* with _totalSegments = n (the event itself, unsplit, when nothing overlaps
\* it; nothing at all when it is fully covered).
C21_OverlapSegments ==
    Printed =>
        \A day \in DOMAIN result.value.days :
            DayOutput(result.value.days[day].day_events,
                      result.value.days[day].processed)

(***************************************************************************)
(* pdf_generator.py: the geometry and the text of the event cells          *)
(* Lengths are exact fractions [num, den] of a point; the page constants   *)
(* are in tenths of a point (1 inch = 72 points).  A text is the sequence  *)
(* of its characters.                                                      *)
(***************************************************************************)
PAGE_WIDTH == 7920

PAGE_HEIGHT == 6120

MARGIN_LEFT == 360

MARGIN_RIGHT == 360

MARGIN_TOP == 360

MARGIN_BOTTOM == 360

HEADER_HEIGHT == 360

LEGEND_HEIGHT == 252

GRID_TIME_COL_WIDTH == 432

Fraction(num, den) == [num |-> num, den |-> den]

\* length > n, for a fraction with a positive denominator
Exceeds(length, n) == length.num > n * length.den

\* int(length / n), for a length that is not negative
IntOfQuotient(length, n) == length.num \div (n * length.den)

\* the character "…"
Ellipsis == "..."

\* text[:n] and text[m:n] of Python, for 0 <= m
Slice(text, m, n) ==
    IF n <= m THEN <<>> ELSE SubSeq(text, m + 1, Min(n, Len(text)))

Digits == <<"0", "1", "2", "3", "4", "5", "6", "7", "8", "9">>

\* the characters of the "HH:MM" string that the tuple stands for
TimeText(time) ==
    <<Digits[(time[1] \div 10) + 1], Digits[(time[1] % 10) + 1], ":",
      Digits[(time[2] \div 10) + 1], Digits[(time[2] % 10) + 1]>>

\* a slip: the cut leaves the line one character over the budget
cut_line_over(text, max_chars) ==
    IF Len(text) > max_chars
    THEN Append(Slice(text, 0, max_chars), Ellipsis)
    ELSE text

\* text[:max_chars-1] + "…" when the text is longer than max_chars
cut_line(text, max_chars) ==
    IF Len(text) > max_chars
    THEN Append(Slice(text, 0, max_chars - 1), Ellipsis)
    ELSE text

\* lines 479-513: the title lines drawn
title_lines(title, width, height) ==
    LET max_chars_per_line == IntOfQuotient(width, 6)
        can_wrap_title == Exceeds(height, 55)
        line1 == Slice(title, 0, max_chars_per_line)
        line2 == Slice(title, max_chars_per_line, max_chars_per_line * 2)
    IN  IF ~Exceeds(height, 15) THEN <<>>
        ELSE IF can_wrap_title /\ Len(title) > max_chars_per_line
        THEN <<[what |-> "title", text |-> line1],
               [what |-> "title",
                text |-> IF Len(title) > max_chars_per_line * 2
                         THEN Append(Slice(line2, 0, max_chars_per_line - 1), Ellipsis)
                         ELSE line2]>>
        ELSE <<[what |-> "title", text |-> cut_line(title, max_chars_per_line)]>>

\* lines 515-536: the subtitle and the time range drawn under the title
detail_lines(event, width, height, title_drawn_lines) ==
    LET sub == DictGet(event, "sub", <<>>)
        time_str == TimeText(event.start) \o <<" ", "-", " ">> \o TimeText(event.end)
    IN  (IF Exceeds(height, 28 + (title_drawn_lines - 1) * 10) /\ sub # <<>>
         THEN <<[what |-> "sub", text |-> cut_line(sub, IntOfQuotient(width, 5))]>>
         ELSE <<>>)
        \o (IF Exceeds(height, 42 + (title_drawn_lines - 1) * 10)
            THEN <<[what |-> "time", text |-> time_str]>>
            ELSE <<>>)

\* lines 437-536 for one event: nothing when the event has no column or no
\* height, else the cell with the lines of text drawn in it
draw_event(event, day_width, hour_height, visible_days, start_hour) ==
    LET start_mins == pdf_generator_parse_time_to_minutes(DictGet(event, "start", <<0, 0>>))
        end_mins == pdf_generator_parse_time_to_minutes(DictGet(event, "end", <<0, 0>>))
        padding == 2
        width == Fraction(day_width.num - 2 * padding * day_width.den, day_width.den)
        height == Fraction((end_mins - start_mins) * hour_height.num,
                           60 * hour_height.den)
        title == DictGet(event, "title", <<>>)
        titles == title_lines(title, width, height)
    IN  IF DictGet(event, "day", 0) \notin visible_days \/ ~Exceeds(height, 0)
        THEN <<>>
        ELSE <<[event |-> event, width |-> width, height |-> height,
                lines |-> titles \o detail_lines(event, width, height, Len(titles))]>>

_draw_events(events, day_width, hour_height, visible_days, start_hour) ==
    Flatten([k \in DOMAIN events |->
                draw_event(events[k], day_width, hour_height, visible_days,
                           start_hour)])

\* generate_schedule_pdf: the cells drawn
generate_schedule_pdf(events, view_state, hidden_categories) ==
    LET start_hour == GetOr(view_state, "startHour", 0)
        end_hour == GetOr(view_state, "endHour", 24)
        num_hours == end_hour - start_hour
        restricted == "daysRange" \in DOMAIN view_state /\ Len(view_state.daysRange) > 0
        visible_days == IF restricted
                        THEN {view_state.daysRange[k] : k \in DOMAIN view_state.daysRange}
                        ELSE 0..6
        num_days == IF restricted THEN Len(view_state.daysRange) ELSE 7
        by_day == processed_by_day(events, view_state, hidden_categories)
        ordered == SelectSeq(<<0, 1, 2, 3, 4, 5, 6>>, LAMBDA d : d \in visible_days)
        processed_events == Flatten([k \in DOMAIN ordered |-> by_day[ordered[k]].processed])
        content_width == PAGE_WIDTH - MARGIN_LEFT - MARGIN_RIGHT
        content_height == PAGE_HEIGHT - MARGIN_TOP - MARGIN_BOTTOM
                              - HEADER_HEIGHT - LEGEND_HEIGHT
        grid_width == content_width - GRID_TIME_COL_WIDTH
        day_width == IF num_days > 0 THEN Fraction(grid_width, 10 * num_days)
                     ELSE Fraction(grid_width, 10)
        hour_height == IF num_hours > 0 THEN Fraction(content_height, 10 * num_hours)
                       ELSE Fraction(content_height, 10)
    IN  _draw_events(processed_events, day_width, hour_height, visible_days, start_hour)

\* POST /api/schedules/<filename>/print: the response is the PDF, the model
\* keeps the cells drawn in it
print_cells(filename, data) ==
    LET time_range == DictGet(data, "timeRange", <<>>)
        loaded == load_schedule(filename)
        events == DictGet(loaded.value, "events", <<>>)
        hours == [startHour |-> DictGet(time_range, "startHour", 0),
                  endHour |-> DictGet(time_range, "endHour", 24)]
        view_state == IF "daysRange" \in DOMAIN data
                      THEN DictSet(hours, "daysRange", data.daysRange)
                      ELSE hours
    IN  IF ~loaded.ok
        THEN /\ result' = Called("print_cells", loaded)
             /\ UNCHANGED <<calendar, schedules>>
        ELSE /\ result' = Called("print_cells",
                                 Return([cells |->
                                     generate_schedule_pdf(
                                         events, view_state,
                                         DictGet(data, "hiddenCategories", <<>>))]))
             /\ schedules' = load_schedule_files(filename)
             /\ UNCHANGED calendar

(***************************************************************************)
(* Cells: a stored schedule of Monday templates of several lengths, with   *)
(* titles and subtitles around the character budgets, printed in 7, 3 or 1 *)
(* columns of 24 or 12 hours                                               *)
(***************************************************************************)
MaxCells == 2

\* a text of n characters
TextOf(n) == [k \in 1..n |-> "x"]

CellTemplates ==
    {t \in {[day |-> [int |-> 0], start |-> <<9, 0>>, end |-> end,
             title |-> TextOf(n), type |-> "work"] @@ sub :
               end \in {<<9, 30>>, <<9, 48>>, <<10, 0>>, <<11, 0>>, <<12, 0>>},
               n \in {3, 16, 31},
               sub \in {<<>>, ("sub" :> TextOf(19))}} :
        validate_event(t).valid}

\* the route takes the daysRange of the request as it is: ten columns
ManyDays == <<0, 1, 2, 3, 4, 5, 6, 7, 8, 9>>

CellRequests ==
    {hours @@ days :
        hours \in {<<>>, ("timeRange" :> [startHour |-> 8, endHour |-> 20])},
        days \in {<<>>, ("daysRange" :> <<0, 1, 2>>), ("daysRange" :> <<0>>),
                  ("daysRange" :> ManyDays)}}

InitCells ==
    /\ \E events \in SeqsUpTo(CellTemplates, MaxCells) :
          schedules = (WeekFile :> [name |-> "Week", events |-> events])
    /\ calendar = _get_default_calendar
    /\ result = NoResult
    /\ _schedule_name_cache = <<>>

PrintCells ==
    /\ \E filename \in {<<"a", "">>, <<"b", "">>}, data \in CellRequests :
           print_cells(filename, data)
    /\ UNCHANGED _schedule_name_cache

NextCells == PrintCells

SpecCells == InitCells /\ [][NextCells]_vars

\* the print was answered with the cells drawn
Drawn == Answered("print_cells")

Cells == result.value.cells

\* length >= n, for a fraction with a positive denominator
AtLeast(length, n) == length.num >= n * length.den

\* the lines of one kind drawn in the cell
LinesOf(cell, what) == SelectSeq(cell.lines, LAMBDA line : line.what = what)

\* C22: what is drawn in a cell depends on the cell height h by fixed
\* thresholds: nothing below 16, the title when h >= 16, additionally the
\* subtitle (when the event has one) when h >= 29, additionally the time
\* range when h >= 43, and the title is laid out on two lines only when
\* h >= 56 (and only when it exceeds one line's character budget).
C22_HeightThresholds ==
    Drawn =>
        \A k \in DOMAIN Cells :
            LET cell == Cells[k]
                h == cell.height
            IN  /\ Len(LinesOf(cell, "title")) >= 1 <=> AtLeast(h, 16)
                /\ Len(LinesOf(cell, "sub")) = 1 <=>
                       AtLeast(h, 29) /\ DictGet(cell.event, "sub", <<>>) # <<>>
                /\ Len(LinesOf(cell, "time")) = 1 <=> AtLeast(h, 43)
                /\ Len(LinesOf(cell, "title")) = 2 <=>
                       /\ AtLeast(h, 56)
                       /\ Len(cell.event.title) > IntOfQuotient(cell.width, 6)
                /\ ~AtLeast(h, 16) => cell.lines = <<>>

(***************************************************************************)
(* The event records in memory.  A dict is an object: the heap is the      *)
(* sequence of the dicts made so far, a reference is an index into it, and *)
(* a list of events is a sequence of references.  dict.copy() and          *)
(* {**evt, ...} make a new object; event[key] = value writes to the object *)
(* the reference names.                                                    *)
(***************************************************************************)
\* the dicts the references name
Deref(heap, refs) == [k \in DOMAIN refs |-> heap[refs[k]]]

\* new dicts with the given content, and the references to them
new_dicts(heap, dicts) ==
    [heap |-> heap \o dicts, refs |-> [k \in DOMAIN dicts |-> Len(heap) + k]]

\* a slip: the events themselves instead of copies of them
copy_events_shared(heap, events) == [heap |-> heap, refs |-> events]

\* [e.copy() for e in events]
copy_events(heap, events) == new_dicts(heap, Deref(heap, events))

\* mark_event_source, lines 20-22: event['_source'] = source_type on each
\* event of the list
mark_event_source_in_place(heap, events, source_type) ==
    [r \in DOMAIN heap |->
        IF \E k \in DOMAIN events : events[k] = r
        THEN DictSet(heap[r], "_source", source_type)
        ELSE heap[r]]

\* expand_events: every instance is a copy of its template, written to
\* after the copy
expand_events_in_memory(heap, events) ==
    new_dicts(heap, expand_events(Deref(heap, events)))

\* merge_events: the marks go on copies; a schedule event that no direct
\* event splits is the marked copy itself, a segment is a copy of it
merge_events_in_memory(heap, schedule_events, direct_events, date) ==
    LET s == copy_events(heap, schedule_events)
        marked == mark_event_source_in_place(s.heap, s.refs, "schedule")
        d == copy_events(marked, direct_events)
        both == mark_event_source_in_place(d.heap, d.refs, "direct")
        processed ==
            Flatten([i \in DOMAIN s.refs |->
                LET segments == process_overlaps(<<both[s.refs[i]]>>,
                                                 Deref(both, d.refs))
                IN  [j \in DOMAIN segments |->
                        [dict |-> segments[j],
                         ref |-> IF "_split" \in DOMAIN segments[j]
                                 THEN 0 ELSE s.refs[i]]]])
        copies == SelectSeq(processed, LAMBDA p : p.ref = 0)
        made == new_dicts(both, [k \in DOMAIN copies |-> copies[k].dict])
        ref_of(n) ==
            IF processed[n].ref # 0 THEN processed[n].ref
            ELSE made.refs[Cardinality({m \in 1..n : processed[m].ref = 0})]
        all_events ==
            [n \in DOMAIN processed |->
                [start |-> processed[n].dict.start, ref |-> ref_of(n)]]
            \o [k \in DOMAIN d.refs |->
                   [start |-> both[d.refs[k]].start, ref |-> d.refs[k]]]
        sorted == sorted_by_start(all_events)
    IN  [heap |-> made.heap, refs |-> [k \in DOMAIN sorted |-> sorted[k].ref]]

\* filter_events: every event kept is a copy, clipped after the copy
filter_events_in_memory(heap, events, view_state, hidden_categories) ==
    new_dicts(heap, filter_events(Deref(heap, events), view_state, hidden_categories))

\* process_overlap_segments: every output is a new dict {**evt, ...}
process_overlap_segments_in_memory(heap, events) ==
    new_dicts(heap, process_overlap_segments(Deref(heap, events)))

(***************************************************************************)
(* One request in memory: the templates and the direct events as read      *)
(* from the files, then expand_events, and on its instances merge_events   *)
(* for the Wednesday, or filter_events and process_overlap_segments        *)
(***************************************************************************)
MaxMemory == 2

MemoryTemplates ==
    {LegacyTemplate(2, <<9, 0>>, <<10, 30>>),
     [LegacyTemplate(2, <<9, 30>>, <<10, 0>>) EXCEPT !.overwriteable = FALSE,
                                                     !.day = [list |-> <<0, 2>>]],
     [title |-> "Lunch", type |-> "food", overwriteable |-> TRUE,
      timestamps |-> <<Stamp([int |-> 2], <<9, 0>>, <<9, 45>>)>>]}

MemoryDirects ==
    {DictSet(direct_event_record(DirectData(Wednesday, s, <<9, 45>>)),
             "_direct_index", 0) : s \in {<<9, 0>>, <<9, 15>>}}

\* what the request holds: the heap, the lists read, and the last call with
\* the list it was given and the list it returned
Memory(heap, templates, direct, call, given, returned) ==
    [ok |-> TRUE, call |-> call, heap |-> heap, templates |-> templates,
     direct |-> direct, given |-> given, returned |-> returned]

InitMemory ==
    /\ calendar = _get_default_calendar
    /\ schedules = (WeekFile :> EmptySchedule("Week"))
    /\ \E templates \in SeqsUpTo(MemoryTemplates, MaxMemory),
          direct \in SeqsUpTo(MemoryDirects, MaxMemory) :
          result = Memory(templates \o direct,
                          [k \in DOMAIN templates |-> k],
                          [k \in DOMAIN direct |-> Len(templates) + k],
                          "load", <<>>, <<>>)
    /\ _schedule_name_cache = <<>>

Step(call, given, out) ==
    /\ result' = Memory(out.heap, result.templates, result.direct, call, given,
                        out.refs)
    /\ UNCHANGED <<calendar, schedules>>

ExpandEvents ==
    /\ result.call = "load"
    /\ Step("expand_events", result.templates,
            expand_events_in_memory(result.heap, result.templates))
    /\ UNCHANGED _schedule_name_cache

MergeEvents ==
    /\ result.call = "expand_events"
    /\ LET day_events == SelectSeq(result.returned,
                                   LAMBDA r : result.heap[r].day = get_day_of_week(Wednesday))
       IN  Step("merge_events", day_events \o result.direct,
                merge_events_in_memory(result.heap, day_events, result.direct,
                                       Wednesday))
    /\ UNCHANGED _schedule_name_cache

FilterEvents ==
    /\ result.call = "expand_events"
    /\ \E view_state \in {[startHour |-> 0, endHour |-> 24],
                          [startHour |-> 0, endHour |-> 10]} :
          Step("filter_events", result.returned,
               filter_events_in_memory(result.heap, result.returned, view_state, <<>>))
    /\ UNCHANGED _schedule_name_cache

ProcessOverlapSegments ==
    /\ result.call = "filter_events"
    /\ LET day_events == SelectSeq(result.returned, LAMBDA r : result.heap[r].day = 2)
       IN  Step("process_overlap_segments", day_events,
                process_overlap_segments_in_memory(result.heap, day_events))
    /\ UNCHANGED _schedule_name_cache

NextMemory == ExpandEvents \/ MergeEvents \/ FilterEvents \/ ProcessOverlapSegments

SpecMemory == InitMemory /\ [][NextMemory]_vars

update_color_mappings(filename, new_mappings) ==
    LET safe_name == sanitize_filename(filename)
    IN  IF raw_schedule_missing(filename)
        THEN /\ result' = Called("update_color_mappings", NotFound(filename))
             /\ UNCHANGED <<calendar, schedules>>
        ELSE /\ schedules' = [schedules EXCEPT ![safe_name] =
                                 DictSet(@, "color_mappings", new_mappings)]
             /\ result' = Called("update_color_mappings",
                                 Return("Color mappings updated"))
             /\ UNCHANGED calendar

(***************************************************************************)
(* Colors: a stored schedule, its color mappings updated, the schedule     *)
(* saved anew and loaded                                                   *)
(***************************************************************************)
MaxColors == 2

ColorTemplates ==
    {Legacy([int |-> 0], <<9, 0>>, <<10, 0>>, type) : type \in {"work", "class", "gym"}}

\* "crimson" is no color of the palette
ColorMappings == {<<>>, ("work" :> "teal"), ("work" :> "crimson"),
                  ("work" :> "teal") @@ ("class" :> "crimson")}

InitColors ==
    /\ \E events \in SeqsUpTo(ColorTemplates, MaxColors) :
          schedules = (WeekFile :> [name |-> "Week", events |-> events])
    /\ calendar = _get_default_calendar
    /\ result = NoResult
    /\ _schedule_name_cache = <<>>

UpdateColorMappings ==
    /\ \E filename \in {<<"a", "">>, <<"b", "">>}, new_mappings \in ColorMappings :
           update_color_mappings(filename, new_mappings)
    /\ UNCHANGED _schedule_name_cache

SaveColors ==
    /\ \E color_mappings \in ColorMappings :
           save_schedule(WeekFile, [name |-> "Week", events |-> <<>>,
                                    color_mappings |-> color_mappings])
    /\ UNCHANGED _schedule_name_cache

LoadColors ==
    /\ LoadSchedule(WeekFile)
    /\ UNCHANGED _schedule_name_cache

NextColors == UpdateColorMappings \/ SaveColors \/ LoadColors

SpecColors == InitColors /\ [][NextColors]_vars

\* every color of the mappings is one of the palette
PaletteOnly(color_mappings) ==
    \A type \in DOMAIN color_mappings : color_mappings[type] \in VALID_COLOR_NAMES

\* load_schedule can load the file
Loadable(filename) == load_schedule(filename).ok

\* C24: every write path that ingests schedule data rejects a color name
\* that is not in the fixed 16-name palette with a validation error and
\* leaves the stored schedule unchanged; in particular after a
\* color_mappings update request (accepted or rejected) a schedule that
\* load_schedule could load before the request can still be loaded.
C24_ColorsValidated ==
    [][\A color_mappings \in ColorMappings :
          /\ (/\ "call" \in DOMAIN result'
              /\ result'.call = "update_color_mappings"
              /\ ~PaletteOnly(color_mappings)
              /\ update_color_mappings(WeekFile, color_mappings)) =>
                 /\ ~result'.ok
                 /\ result'.error = "ValueError"
                 /\ schedules' = schedules
          /\ (/\ "call" \in DOMAIN result'
              /\ result'.call = "save_schedule"
              /\ ~PaletteOnly(color_mappings)
              /\ save_schedule(WeekFile, [name |-> "Week", events |-> <<>>,
                                          color_mappings |-> color_mappings])) =>
                 /\ ~result'.ok
                 /\ result'.error = "ValueError"
                 /\ schedules' = schedules
          /\ (/\ "call" \in DOMAIN result'
              /\ result'.call = "update_color_mappings"
              /\ Loadable(WeekFile)) => Loadable(WeekFile)']_vars

(***************************************************************************)
(* app.py: the display name of a schedule and its process-wide cache       *)
(***************************************************************************)
\* filename.replace('.json', '')
without_json(schedule_filename) == schedule_filename[1]

\* the name get_schedule_name reads when the cache has none
read_schedule_name(schedule_filename) ==
    LET loaded == load_schedule(schedule_filename)
    IN  IF loaded.ok
        THEN DictGet(loaded.value, "name", without_json(schedule_filename))
        ELSE without_json(schedule_filename)

get_schedule_name(schedule_filename) ==
    IF schedule_filename \in DOMAIN _schedule_name_cache
    THEN /\ result' = Called("get_schedule_name",
                             Return(_schedule_name_cache[schedule_filename]))
         /\ UNCHANGED <<calendar, schedules, _schedule_name_cache>>
    ELSE /\ _schedule_name_cache' =
                DictSet(_schedule_name_cache, schedule_filename,
                        read_schedule_name(schedule_filename))
         /\ schedules' = load_schedule_files(schedule_filename)
         /\ result' = Called("get_schedule_name",
                             Return(read_schedule_name(schedule_filename)))
         /\ UNCHANGED calendar

\* the save route: schedule_io.save_schedule and nothing else
save_schedule_route(filename, actual_schedule) ==
    /\ save_schedule(filename, actual_schedule)
    /\ UNCHANGED _schedule_name_cache

(***************************************************************************)
(* Saving, deleting and naming one schedule file, asked for with and       *)
(* without its suffix, under two names.                                    *)
(***************************************************************************)
MaxNames == 2

NameFiles == {<<"a", ".json">>, <<"a", "">>}

ScheduleNames == {"Week", "Term"}

NamedSchedules ==
    {[name |-> name, events |-> events] :
        name \in ScheduleNames, events \in SeqsUpTo(ColorTemplates, MaxNames - 1)}

InitNames ==
    /\ schedules \in {<<>>} \cup {(WeekFile :> data) : data \in NamedSchedules}
    /\ calendar = _get_default_calendar
    /\ result = NoResult
    /\ _schedule_name_cache = <<>>

GetScheduleName == \E filename \in NameFiles : get_schedule_name(filename)

SaveScheduleRoute ==
    \E filename \in NameFiles, data \in NamedSchedules :
        save_schedule_route(filename, data)

DeleteNamedSchedule == \E filename \in NameFiles : delete_schedule_route(filename)

NextNames == GetScheduleName \/ SaveScheduleRoute \/ DeleteNamedSchedule

SpecNames == InitNames /\ [][NextNames]_vars

\* the name the file holds now, or the file name without .json
CurrentName(filename) == read_schedule_name(filename)

\* C25: after any sequence of schedule saves, deletes and get_schedule_name
\* calls, get_schedule_name(f) answers the name stored in file f at that
\* moment, or the file name without .json when the file does not exist or
\* cannot be loaded: no answer is a name that a later save, delete or
\* re-creation has made stale.
C25_NameNeverStale ==
    [][\A filename \in NameFiles :
          (/\ "call" \in DOMAIN result'
           /\ result'.call = "get_schedule_name"
           /\ get_schedule_name(filename)) =>
              result'.value = CurrentName(filename)]_vars

(***************************************************************************)
(* The three overlap predicates on the same pair of ranges: date_utils     *)
(* takes the HH:MM strings, schedule_stats and pdf_generator the minutes   *)
(* their callers parsed from them.                                         *)
(***************************************************************************)
MaxOverlapHour == 11

OverlapTimes == {<<h, m>> : h \in 9..MaxOverlapHour, m \in {0, 30}}

InitOverlaps ==
    /\ \E start1 \in OverlapTimes, end1 \in OverlapTimes,
          start2 \in OverlapTimes, end2 \in OverlapTimes :
          result = [ok |-> TRUE,
                    given |-> <<start1, end1, start2, end2>>,
                    value |-> <<>>]
    /\ calendar = _get_default_calendar
    /\ schedules = <<>>
    /\ _schedule_name_cache = <<>>

Answer(module, answer) ==
    /\ module \notin DOMAIN result.value
    /\ result' = [result EXCEPT !.value = DictSet(@, module, answer)]
    /\ UNCHANGED <<calendar, schedules, _schedule_name_cache>>

TimeOverlaps ==
    Answer("date_utils",
           time_overlaps(result.given[1], result.given[2],
                         result.given[3], result.given[4]))

StatsTimeRangesOverlap ==
    Answer("schedule_stats",
           time_ranges_overlap(parse_time_to_minutes(result.given[1]),
                               parse_time_to_minutes(result.given[2]),
                               parse_time_to_minutes(result.given[3]),
                               parse_time_to_minutes(result.given[4])))

PdfTimeRangesOverlap ==
    Answer("pdf_generator",
           pdf_generator_time_ranges_overlap(
               pdf_generator_parse_time_to_minutes(result.given[1]),
               pdf_generator_parse_time_to_minutes(result.given[2]),
               pdf_generator_parse_time_to_minutes(result.given[3]),
               pdf_generator_parse_time_to_minutes(result.given[4])))

NextOverlaps == TimeOverlaps \/ StatsTimeRangesOverlap \/ PdfTimeRangesOverlap

SpecOverlaps == InitOverlaps /\ [][NextOverlaps]_vars

\* minutes since midnight of an hour and a minute
MinuteOfDay(time) == time[1] * 60 + time[2]

\* s1 < e2 and s2 < e1
HalfOpenOverlap(given) ==
    /\ MinuteOfDay(given[1]) < MinuteOfDay(given[4])
    /\ MinuteOfDay(given[3]) < MinuteOfDay(given[2])

\* C26: date_utils.time_overlaps on HH:MM strings and the time_ranges_overlap
\* of schedule_stats and of pdf_generator on minutes give the same answer
\* for every pair of ranges, namely s1 < e2 and s2 < e1; two ranges that
\* only touch at an endpoint do not overlap.
C26_OverlapPredicatesAgree ==
    "given" \in DOMAIN result =>
        \A module \in DOMAIN result.value :
            result.value[module] = HalfOpenOverlap(result.given)

\* the three have answered FALSE for 9:00-10:00 and 10:00-11:00
C26_Witness ==
    /\ "given" \in DOMAIN result
    /\ result.given = <<<<9, 0>>, <<10, 0>>, <<10, 0>>, <<11, 0>>>>
    /\ DOMAIN result.value = {"date_utils", "schedule_stats", "pdf_generator"}
    /\ \A module \in DOMAIN result.value : ~result.value[module]

\* the text a line of the cell was made from
SourceText(cell, what) ==
    IF what = "title" THEN cell.event.title
    ELSE IF what = "sub" THEN cell.event.sub
    ELSE TimeText(cell.event.start) \o <<" ", "-", " ">> \o TimeText(cell.event.end)

\* int(width / average character width) of the line's font
CharBudget(cell, what) == IntOfQuotient(cell.width, IF what = "title" THEN 6 ELSE 5)

MaxRequests == 2

RaceDates == {<<2025, 1, 15>>, <<2025, 1, 20>>}

RaceEntry(start_date, end_date) ==
    [start_date |-> start_date, end_date |-> end_date,
     schedule_filename |-> WeekFile]

\* add_calendar_entry begins at line 215, update_calendar_entry at line 246
RaceRequests ==
    {[call |-> "add_calendar_entry", pc |-> "validate", index |-> -1,
      entry |-> RaceEntry(s, e), config |-> _get_default_calendar] :
        s \in RaceDates, e \in RaceDates}
    \cup
    {[call |-> "update_calendar_entry", pc |-> "load", index |-> 0,
      entry |-> RaceEntry(s, e), config |-> _get_default_calendar] :
        s \in RaceDates, e \in RaceDates}

InitRace ==
    /\ \E entries \in {<<>>, <<RaceEntry(<<2025, 1, 10>>, <<2025, 1, 10>>)>>} :
          calendar = [_get_default_calendar EXCEPT !.entries = entries]
    /\ schedules = (WeekFile :> EmptySchedule("A"))
    /\ \E requests \in [1..MaxRequests -> RaceRequests] :
          result = [ok |-> TRUE, requests |-> requests]
    /\ _schedule_name_cache = <<>>

\* request r goes on to the line to, with its local config
GoTo(r, to, config) ==
    /\ result' = [result EXCEPT !.requests[r].pc = to,
                                !.requests[r].config = config]
    /\ UNCHANGED <<schedules, _schedule_name_cache>>

\* lines 215-217 and 251-254: validate_calendar_entry, with its own
\* load_calendar
validate_step(r) ==
    LET request == result.requests[r]
        adding == request.call = "add_calendar_entry"
        v == validate_calendar_entry(request.entry.start_date,
                                     request.entry.end_date,
                                     request.entry.schedule_filename,
                                     IF adding THEN {} ELSE {request.index})
    IN  /\ request.pc = "validate"
        /\ GoTo(r, IF ~v.valid THEN "ValueError"
                   ELSE IF adding THEN "load" ELSE "assign",
                request.config)
        /\ UNCHANGED calendar

\* lines 219 and 246-249: config = load_calendar()
load_step(r) ==
    LET request == result.requests[r]
        adding == request.call = "add_calendar_entry"
        config == load_calendar
    IN  /\ request.pc = "load"
        /\ GoTo(r, IF adding THEN "append"
                   ELSE IF request.index < 0 \/ request.index >= Len(config.entries)
                   THEN "IndexError"
                   ELSE "validate",
                config)
        /\ UNCHANGED calendar

\* line 225: config['entries'].append(entry)
append_step(r) ==
    LET request == result.requests[r]
    IN  /\ request.pc = "append"
        /\ GoTo(r, "save", [request.config EXCEPT !.entries = Append(@, request.entry)])
        /\ UNCHANGED calendar

\* lines 256-260: config['entries'][index] = entry
assign_step(r) ==
    LET request == result.requests[r]
    IN  /\ request.pc = "assign"
        /\ GoTo(r, "save",
                [request.config EXCEPT !.entries[request.index + 1] = request.entry])
        /\ UNCHANGED calendar

\* lines 226 and 261: save_calendar(config)
save_step(r) ==
    LET request == result.requests[r]
    IN  /\ request.pc = "save"
        /\ calendar' = request.config
        /\ GoTo(r, "return", request.config)

ValidateStep == \E r \in 1..MaxRequests : validate_step(r)

LoadStep == \E r \in 1..MaxRequests : load_step(r)

AppendStep == \E r \in 1..MaxRequests : append_step(r)

AssignStep == \E r \in 1..MaxRequests : assign_step(r)

SaveStep == \E r \in 1..MaxRequests : save_step(r)

NextRace == ValidateStep \/ LoadStep \/ AppendStep \/ AssignStep \/ SaveStep

SpecRace == InitRace /\ [][NextRace]_vars

\* the two stored ranges share a date
RangesShareDate(a, b) ==
    /\ parse_date(a.start_date) <= parse_date(b.end_date)
    /\ parse_date(b.start_date) <= parse_date(a.end_date)

\* C28: when two add_calendar_entry / update_calendar_entry requests run
\* concurrently and their steps (the load inside validation, the second
\* load, the append, the save) interleave in any order, no interleaving
\* ends with two stored entries whose date ranges share a date.
C28_NoOverlapInterleaved ==
    \A i \in DOMAIN calendar.entries, j \in DOMAIN calendar.entries :
        i < j => ~RangesShareDate(calendar.entries[i], calendar.entries[j])

\* the minutes of the spans of a list of output records, summed
SummedMinutes(block) == SumOf([k \in DOMAIN block |-> End(block[k]) - Start(block[k])])

\* 60 x calculate_effective_duration: the hours are kept as sixtieths
EffectiveMinutes(E, events) == calculate_effective_duration(E, events).num

\* the records that process_overlap_segments emitted for the i-th
\* overwriteable event of the day: the non-overwriteable events come first,
\* then one block for each overwriteable event in turn
EmittedFor(i, events, processed) ==
    LET opaque == Opaque(events)
        yielding == Yielding(events)
        size(n) == Len(overwriteable_output(yielding[n], opaque))
        before == Len(opaque) + SumOf([n \in 1..(i - 1) |-> size(n)])
    IN  SubSeq(processed, before + 1, before + size(i))

\* every event of the list starts before it ends
StartsBeforeEnds(events) == \A k \in DOMAIN events : Start(events[k]) < End(events[k])

SegmentsMatchDuration(events, processed) ==
    LET opaque == Opaque(events)
        yielding == Yielding(events)
    IN  /\ \A k \in DOMAIN opaque :
              /\ SummedMinutes(<<processed[k]>>) = End(opaque[k]) - Start(opaque[k])
              /\ EffectiveMinutes(opaque[k], events) = End(opaque[k]) - Start(opaque[k])
        /\ \A i \in DOMAIN yielding :
              /\ \A k \in DOMAIN EmittedFor(i, events, processed) :
                    SameButTimes(EmittedFor(i, events, processed)[k], yielding[i])
              /\ SummedMinutes(EmittedFor(i, events, processed))
                     = EffectiveMinutes(yielding[i], events)

\* C29: for every single-day event list with start < end, the summed length
\* in minutes of the entries process_overlap_segments emits for an
\* overwriteable event E equals 60 x calculate_effective_duration(E, events),
\* and for every non-overwriteable event both give its full span.
C29_SegmentsMatchDuration ==
    Printed =>
        \A day \in DOMAIN result.value.days :
            StartsBeforeEnds(result.value.days[day].day_events) =>
                SegmentsMatchDuration(result.value.days[day].day_events,
                                      result.value.days[day].processed)

\* Monday's 08:00-13:00 overwriteable event was emitted as the two segments
\* 08:00-09:00 and 10:00-13:00 around a non-overwriteable 09:00-10:00
C29_Witness ==
    /\ Printed
    /\ LET events == result.value.days[0].day_events
           processed == result.value.days[0].processed
       IN  /\ StartsBeforeEnds(events)
           /\ Len(Opaque(events)) = 1
           /\ Len(Yielding(events)) >= 1
           /\ Start(Yielding(events)[1]) = 480
           /\ Len(EmittedFor(1, events, processed)) = 2
           /\ SummedMinutes(EmittedFor(1, events, processed)) = 240
           /\ EffectiveMinutes(Yielding(events)[1], events) = 240

\* the instances expand_events makes of the template at Python index i
ExpandedFrom(events, i) ==
    SelectSeq(expand_events(events), LAMBDA e : e._original_idx = i)

\* C30: every event template that passes validate_event expands to at least
\* one instance in expand_events, so no template of a stored schedule that
\* validate_schedule_structure accepts disappears from the loaded schedule.
C30_TemplatesExpand ==
    \A f \in DOMAIN schedules :
        validate_schedule_structure(schedules[f]).valid =>
            \A i \in DOMAIN schedules[f].events :
                validate_event(schedules[f].events[i]).valid =>
                    Len(ExpandedFrom(schedules[f].events, i - 1)) >= 1

====
